---- MODULE Spec2Model ----
(***************************************************************************)
(* A model of parts of the sidecar repository, among them:                       *)
(*   - the plan_service binary's command loop (sidecar/src/bin/            *)
(*     plan_service.rs), specification PlanSpec;                           *)
(*   - the Anthropic streaming client (llm_client/src/clients/             *)
(*     anthropic.rs), specification SseSpec;                               *)
(*   - the scratch-pad agent (sidecar/src/agentic/symbol/scratch_pad.rs),  *)
(*     specification Spec.                                                 *)
(* Each specification starts in Init and moves one part, leaving the       *)
(* variables of the other parts unchanged.                                 *)
(***************************************************************************)
EXTENDS Integers, Sequences, FiniteSets, TLC

(***************************************************************************)
(* Bounds of the model.                                                    *)
(***************************************************************************)
\* the longest plan
MaxSteps == 2
\* the cap on successful execute_step calls over a whole behaviour
MaxOk == 3
\* the cap on restarts of the plan_service process
MaxRestarts == 2
\* the cap on SSE events one completion consumes
MaxSseEvents == 4
\* the cap on events the scratch-pad is given: arrivals on the environment
\* stream and ticks of the ping task
MaxEvents == 3
\* the most edit requests one anchor gives
MaxEdits == 2

\* the most edit requests of an anchor batch taken by its number alone
MaxBatch == 102

\* the longest list of code spans, and the last line of a file
MaxSpans == 3

MaxLine == 2

\* the most symbols a CodeSymbolImportantResponse holds, of both kinds
MaxSymbols == 2

\* buffer_unordered(100): the edit requests in flight at once
K == 100

\* swe_bench: the trajectory loop breaks when its counter is above this
MaxTrajectoryTries == 5

VARIABLES
    \* ---- plan_service ----
    disk,        \* plan.json: [exists, len, checkpoint]
    plan,        \* the Plan value main holds in memory
    planPc,      \* where main is
    abortCause,  \* why main panicked, "" while it has not
    execCount,   \* execCount[s]: how often execute_step returned Ok for step s
    okCount,     \* successful execute_step calls so far
    failCount,   \* saves that returned Err so far
    initCk,      \* the checkpoint the persisted plan started from
    restarts,    \* process starts after the first
    crashes      \* process crashes so far

planVars == <<disk, plan, planPc, abortCause, execCount, okCount, failCount,
              initCk, restarts, crashes>>

VARIABLES
    \* ---- AnthropicClient::stream_completion ----
    ssePc,        \* where the call is
    sseReq,       \* the request: model, key type, and whether the sink's receiver is open
    buffered,     \* buffered_string
    sink,         \* the items the sink's receiver got, in order
    sseResult,    \* what the call returned
    consumed,     \* SSE events taken from the event source
    tokenFired,   \* the request's cancellation token has fired
    sinkAtFire,   \* Len(sink) when the token fired
    deltas,       \* the texts of the content events consumed, in order
    twin,         \* the call of completion given the same request, answer
                  \* and events: its request, position, buffered_string, result
    unknownSeen,  \* an event of a type AnthropicEvent does not know was consumed
    sseAnswer,    \* how the vendor answered the POST
    sseLog,       \* the lines the call has printed, in order
    sseLogOther,  \* the lines the same call prints when given the other key
    sseEnd        \* how the event source ended, "" while it has not

sseVars == <<ssePc, sseReq, buffered, sink, sseResult, consumed, tokenFired,
             sinkAtFire, deltas, twin, unknownSeen, sseAnswer, sseLog,
             sseLogOther, sseEnd>>

VARIABLES
    \* ---- ScratchPadAgent ----
    stream,         \* the environment stream: events not yet taken by the loop
    streamEnded,    \* the environment stream yields no further event
    arrived,        \* events that arrived on the stream so far
    envPc,          \* where process_environment is
    envEv,          \* the Human(Anchor) event the loop is handling
    focussing,      \* the focussing flag
    msgs,           \* the state of each edit request of the current batch
    resolved,       \* resolved[c]: replies sent on oneshot channel c
    collected,      \* the requests whose reply the batch received, in order of arrival
    busOpen,        \* the receiver of the symbol event bus is alive
    reactionQ,      \* the reaction queue
    reactOpen,      \* the receiver of the reaction queue is alive
    reactPc,        \* where the reaction task is
    reactEv,        \* the event the reaction task is reacting to
    diagMsgs,       \* diagnostic_messages of the diagnostics reaction going on
    files_context,  \* the file paths of files_context, in order
    extra_context,  \* extra_context: the edits appended so far
    pingPc,         \* where the ping task is
    pings,          \* pings the ping task has sent
    uiEvents        \* code_iteration_finished events sent to the UI

padVars == <<stream, streamEnded, arrived, envPc, envEv, focussing, msgs,
             resolved, collected, busOpen, reactionQ, reactOpen, reactPc,
             reactEv, diagMsgs, files_context, extra_context, pingPc, pings,
             uiEvents>>

VARIABLES
    \* ---- one anchor batch of human_message_anchor, by numbers ----
    bPc,        \* where the batch is
    bN,         \* symbols_to_edit_request: how many edit requests
    bUnposted,  \* requests whose future is not yet polled
    bOnBus,     \* requests put on the bus, their reply not yet received
    bReplied,   \* requests whose reply was received
    bBusOpen,   \* the receiver of the symbol event bus is alive
    bChannels,  \* distinct oneshot channels created so far
    bMaxChan    \* the newest oneshot channel created

batchVars == <<bPc, bN, bUnposted, bOnBus, bReplied, bBusOpen, bChannels,
               bMaxChan>>

VARIABLES
    \* ---- AnthropicRequest: the wire request of a client request ----
    rqPc,    \* where the call is
    rqIn,    \* the client request: its form, model, max tokens, temperature
    rqWire   \* the AnthropicRequest made from it

reqVars == <<rqPc, rqIn, rqWire>>

VARIABLES
    spPc,         \* where the caller of the CodeSpan functions is
    spIn,         \* the list of code spans it was given
    spOut,        \* merge_consecutive_spans of the list
    spOut2,       \* merge_consecutive_spans of that result
    spDigests     \* to_digests of the list

spanVars == <<spPc, spIn, spOut, spOut2, spDigests>>

VARIABLES
    syPc,         \* where the caller of fix_symbol_names is
    syIn,         \* the CodeSymbolImportantResponse it has
    syOut         \* fix_symbol_names of the response

symVars == <<syPc, syIn, syOut>>

VARIABLES
    gtPc,         \* where LSPGoToDefinition::invoke is, or how it ended
    gtIn,         \* the ToolInput it was given
    gtPosts,      \* the endpoints it has sent a POST to
    gtOut         \* what it returned

gtdVars == <<gtPc, gtIn, gtPosts, gtOut>>

VARIABLES
    swPc,             \* where main of swe_bench is
    swIn,             \* the instance id, the run id and the repository given
    trajectory_tries, \* the counter of the trajectory loop
    swRuns,           \* the arguments of the agent runs made
    swAgentFailed,    \* the last agent run returned an error
    swExit            \* the exit codes of the test executions

sweVars == <<swPc, swIn, trajectory_tries, swRuns, swAgentFailed, swExit>>

vars == <<planVars, sseVars, padVars, batchVars, reqVars, spanVars, symVars,
    gtdVars, sweVars>>

\* what the actions of one part leave alone
notPlanVars == <<sseVars, padVars, batchVars, reqVars, spanVars, symVars,
    gtdVars, sweVars>>

notSseVars == <<planVars, padVars, batchVars, reqVars, spanVars, symVars,
    gtdVars, sweVars>>

notPadVars == <<planVars, sseVars, batchVars, reqVars, spanVars, symVars,
    gtdVars, sweVars>>

notBatchVars == <<planVars, sseVars, padVars, reqVars, spanVars, symVars,
    gtdVars, sweVars>>

notReqVars == <<planVars, sseVars, padVars, batchVars, spanVars, symVars,
    gtdVars, sweVars>>

notSpanVars == <<planVars, sseVars, padVars, batchVars, reqVars, symVars,
    gtdVars, sweVars>>

notSymVars == <<planVars, sseVars, padVars, batchVars, reqVars, spanVars,
    gtdVars, sweVars>>

notGtdVars == <<planVars, sseVars, padVars, batchVars, reqVars, spanVars,
    symVars, sweVars>>

notSweVars == <<planVars, sseVars, padVars, batchVars, reqVars, spanVars,
    symVars, gtdVars>>

(***************************************************************************)
(* plan_service: the Plan value and the PlanService operations.  Their     *)
(* code (agentic/tool/plan) is not among the source files; they are        *)
(* modelled from the specification: a Plan is its ordered steps and a      *)
(* checkpoint, persisted as JSON, and increment_checkpoint is its only     *)
(* mutation.                                                               *)
(***************************************************************************)
NoFile == [exists |-> FALSE, len |-> 0, checkpoint |-> 0]

NoPlan == [len |-> 0, checkpoint |-> 0]

\* Plans plan.json can hold: 0..MaxSteps steps, checkpoint within them
PlanFiles == {f \in [exists : {TRUE}, len : 0..MaxSteps, checkpoint : 0..MaxSteps] :
                 f.checkpoint <= f.len}

\* PlanService::load_plan: parse plan.json into a Plan
LoadPlan(file) == [len |-> file.len, checkpoint |-> file.checkpoint]

\* PlanService::save_plan: serialise the Plan into plan.json; a failed save
\* leaves the file as it was
SavePlan(p, file, ok) ==
    IF ok THEN [exists |-> TRUE, len |-> p.len, checkpoint |-> p.checkpoint]
    ELSE file

\* PlanService::create_plan: a new plan of n steps starts at checkpoint 0
CreatePlan(n) == [len |-> n, checkpoint |-> 0]

\* Plan::increment_checkpoint
IncrementCheckpoint(p) == [p EXCEPT !.checkpoint = p.checkpoint + 1]

\* Vec::get(checkpoint): is there a step at the checkpoint
HasStep(p) == p.checkpoint < p.len

(***************************************************************************)
(* plan_service: main.                                                     *)
(***************************************************************************)
PlanInit ==
    /\ disk \in {NoFile} \cup PlanFiles
    /\ plan = NoPlan
    /\ planPc = "boot"
    /\ abortCause = ""
    /\ execCount = [s \in 0..(MaxSteps - 1) |-> 0]
    /\ okCount = 0
    /\ failCount = 0
    /\ initCk = disk.checkpoint
    /\ restarts = 0
    /\ crashes = 0

\* a variant of StartupPlan: the plan is created anew although plan.json exists
StartupPlanAlwaysCreate(file, created) == created

\* main, lines 154-161: load plan.json when it exists, else create a plan
StartupPlan(file, created) ==
    IF file.exists THEN LoadPlan(file) ELSE created

\* main, lines 154-163: the plan is loaded or created, then saved (the
\* result of the save is discarded)
PlanBoot ==
    /\ UNCHANGED notPlanVars
    /\ planPc = "boot"
    /\ \E n \in 0..MaxSteps, created \in BOOLEAN, saved \in BOOLEAN :
        IF ~disk.exists /\ ~created
        THEN \* create_plan(...).expect("Failed to create new plan")
             /\ planPc' = "aborted"
             /\ abortCause' = "create"
             /\ UNCHANGED <<disk, plan>>
        ELSE /\ plan' = StartupPlan(disk, CreatePlan(n))
             /\ disk' = SavePlan(plan', disk, saved)
             /\ planPc' = "loop"
             /\ UNCHANGED abortCause
    /\ UNCHANGED <<execCount, okCount, failCount, initCk, restarts, crashes>>

\* main, lines 175-179: the head of the loop reloads the plan and takes the
\* step at the checkpoint; both unwrap()s panic
PlanLoad ==
    /\ UNCHANGED notPlanVars
    /\ planPc = "loop"
    /\ IF ~disk.exists
       THEN /\ planPc' = "aborted"
            /\ abortCause' = "load"
            /\ UNCHANGED plan
       ELSE /\ plan' = LoadPlan(disk)
            /\ IF HasStep(plan')
               THEN planPc' = "prompt" /\ UNCHANGED abortCause
               ELSE planPc' = "aborted" /\ abortCause' = "no_step"
    /\ UNCHANGED <<disk, execCount, okCount, failCount, initCk, restarts, crashes>>

\* the lines read from stdin, trimmed
Commands == {"1", "next", "2", "exit", "other"}

\* main, lines 187-209: the command read from stdin
PlanInput ==
    /\ UNCHANGED notPlanVars
    /\ planPc = "prompt"
    /\ \E cmd \in Commands :
        planPc' = CASE cmd \in {"1", "next"} -> "exec"
                    [] cmd \in {"2", "exit"} -> "exited"
                    [] OTHER -> "loop"
    /\ UNCHANGED <<disk, plan, abortCause, execCount, okCount, failCount,
                   initCk, restarts, crashes>>

\* main, lines 194-197 and 204: execute_step returns; on Ok the in-memory
\* checkpoint is incremented, on Err only a message is printed
PlanExecuteStep ==
    /\ UNCHANGED notPlanVars
    /\ planPc = "exec"
    /\ \/ /\ okCount < MaxOk
          /\ execCount' = [execCount EXCEPT ![plan.checkpoint] = @ + 1]
          /\ okCount' = okCount + 1
          /\ plan' = IncrementCheckpoint(plan)
          /\ planPc' = "save"
       \/ /\ planPc' = "loop"
          /\ UNCHANGED <<execCount, okCount, plan>>
    /\ UNCHANGED <<disk, abortCause, failCount, initCk, restarts, crashes>>

\* main, lines 200-202: the plan is saved; an Err is printed and the loop
\* goes on
PlanSave ==
    /\ UNCHANGED notPlanVars
    /\ planPc = "save"
    /\ \E saved \in BOOLEAN :
        /\ disk' = SavePlan(plan, disk, saved)
        /\ failCount' = IF saved THEN failCount ELSE failCount + 1
    /\ planPc' = "loop"
    /\ UNCHANGED <<plan, abortCause, execCount, okCount, initCk, restarts, crashes>>

\* the process is killed wherever it is
PlanCrash ==
    /\ UNCHANGED notPlanVars
    /\ planPc \in {"boot", "loop", "prompt", "exec", "save"}
    /\ planPc' = "crashed"
    /\ crashes' = crashes + 1
    /\ UNCHANGED <<disk, plan, abortCause, execCount, okCount, failCount,
                   initCk, restarts>>

\* the binary is started again: only plan.json survives
PlanRestart ==
    /\ UNCHANGED notPlanVars
    /\ planPc \in {"exited", "aborted", "crashed"}
    /\ restarts < MaxRestarts
    /\ restarts' = restarts + 1
    /\ planPc' = "boot"
    /\ plan' = NoPlan
    /\ abortCause' = ""
    /\ UNCHANGED <<disk, execCount, okCount, failCount, initCk, crashes>>

PlanNext ==
    \/ PlanBoot
    \/ PlanLoad
    \/ PlanInput
    \/ PlanExecuteStep
    \/ PlanSave
    \/ PlanCrash
    \/ PlanRestart


(***************************************************************************)
(* AnthropicClient: completion and stream_completion.  Text is a sequence  *)
(* of characters.                                                          *)
(***************************************************************************)
LLMTypes == {"ClaudeOpus", "ClaudeSonnet", "ClaudeHaiku", "Gpt4O"}

KeyTypes == {"Anthropic", "OpenAI"}

\* the text a content block or a delta carries
Texts == {<<>>, <<"x">>, <<"y">>}

\* the "type" tags AnthropicEvent deserialises
KnownTypes == {"message_start", "content_block_start", "ping",
               "content_block_delta", "content_block_stop", "message_delta",
               "message_stop"}

\* the data of the SSE events a server may send: a type tag, a text (read by
\* the two content variants only), and whether the JSON fits the variant
RawEvents == [type : KnownTypes \cup {"error"}, text : Texts, wellFormed : BOOLEAN]

\* the values of an Anthropic API key
Secrets == {"sk-ant-1", "sk-ant-2"}

OtherSecret(k) == CHOOSE o \in Secrets : o # k

NoRequest == [model |-> "", key |-> "", secret |-> "", receiverOpen |-> FALSE]


\* what a call returns: Ok(text), or an Err; status is the HTTP status a
\* reqwest error carries, 0 when it carries none
NoResult == [kind |-> "none", text |-> <<>>, err |-> "", status |-> 0]

Ok(text) == [kind |-> "Ok", text |-> text, err |-> "", status |-> 0]

Err(e) == [kind |-> "Err", text |-> <<>>, err |-> e, status |-> 0]

\* the reqwest error of error_for_status_ref: it carries the status
StatusErr(code) == [kind |-> "Err", text |-> <<>>, err |-> "Reqwest", status |-> code]

\* the HTTP statuses the vendor answers with
Statuses == {200, 429, 500}

\* how the POST is answered: not at all (a transport error), or with a
\* status and a body that can be read in full or not
Answers ==
    {[transport |-> FALSE, status |-> c, bodyRead |-> b] : c \in Statuses, b \in BOOLEAN}
    \cup {[transport |-> TRUE, status |-> 0, bodyRead |-> FALSE]}

NoAnswer == [transport |-> FALSE, status |-> 0, bodyRead |-> FALSE]

\* a variant of IsSuccess: only a server error is no success
IsSuccessBelow500(code) == code < 500

\* StatusCode::is_success
IsSuccess(code) == code \in 200..299

\* AnthropicClient::get_model_string
get_model_string(llm_type) ==
    CASE llm_type = "ClaudeOpus" -> Ok("claude-3-opus-20240229")
      [] llm_type = "ClaudeSonnet" -> Ok("claude-3-5-sonnet-20240620")
      [] llm_type = "ClaudeHaiku" -> Ok("claude-3-haiku-20240307")
      [] OTHER -> Err("UnSupportedModel")

\* AnthropicClient::generate_api_bearer_key
generate_api_bearer_key(key) ==
    IF key = "Anthropic" THEN Ok("api_key") ELSE Err("WrongAPIKeyType")

\* an event whose JSON is sound and whose type tag names no variant of
\* AnthropicEvent
UnknownType(raw) == raw.wellFormed /\ raw.type \notin KnownTypes

\* serde_json::from_str::<AnthropicEvent>: the variant, or a parse error when
\* the tag names no variant or the JSON does not fit it
ParseEvent(raw) ==
    IF raw.wellFormed /\ raw.type \in KnownTypes
    THEN [ok |-> TRUE, type |-> raw.type, text |-> raw.text]
    ELSE [ok |-> FALSE, type |-> "", text |-> <<>>]

\* a variant of SinkItem: the item carries the delta for the cumulative text
SinkItemDeltaOnly(cumulative, delta, model_str) ==
    [cumulative_text |-> delta, delta |-> delta, model |-> model_str]

\* LLMClientCompletionResponse::new(buffered_string, Some(delta), model_str)
SinkItem(cumulative, delta, model_str) ==
    [cumulative_text |-> cumulative, delta |-> delta, model |-> model_str]

\* UnboundedSender::send: the item reaches the receiver while it is open;
\* the Err of a send on a closed channel is discarded
SinkSend(items, item, receiverOpen) ==
    IF receiverOpen THEN Append(items, item) ELSE items

\* a line printed: what it is, and the value it shows
Line(tag, value) == [tag |-> tag, value |-> value]

\* a variant of ShownHeader: every header is shown as it is
ShownHeaderAsIs(name, value) == value

\* stream_completion, lines 282-292: how a request header is printed
ShownHeader(name, value) ==
    IF name = "x-api-key" THEN "[REDACTED]" ELSE value

\* stream_completion, lines 249-292: what is printed up to the POST: the
\* max tokens, and, the key being an Anthropic key, the request headers
StartLog(req) ==
    IF get_model_string(req.model).kind = "Err" THEN <<>>
    ELSE <<Line("Max tokens", "max_tokens")>> \o
         IF req.key # "Anthropic" THEN <<>>
         ELSE << Line("Request Headers:", ""),
                 Line("x-api-key", ShownHeader("x-api-key", req.secret)),
                 Line("anthropic-beta",
                      ShownHeader("anthropic-beta", "max-tokens-3-5-sonnet-2024-07-15")),
                 Line("anthropic-version",
                      ShownHeader("anthropic-version", "2023-06-01")),
                 Line("content-type",
                      ShownHeader("content-type", "application/json")) >>

\* stream_completion, lines 301-318: what is printed of the answer: the
\* transport error, or the response headers and, the status being no
\* success and the body read, the body
ResponseLog(answer) ==
    IF answer.transport THEN <<Line("sidecar.anthropic.error", "reqwest error")>>
    ELSE <<Line("Response Headers:", "response headers")>> \o
         IF answer.status \in 200..299 \/ ~answer.bodyRead THEN <<>>
         ELSE <<Line("Error response body", "body")>>

\* stream_completion, lines 359-379: what an event of the stream prints,
\* and what is printed when the loop has ended (the tracing event of a
\* delta, lines 347-352, holds two counts and a duration and is left out;
\* an event that is not handled is printed as the vendor sent it)
EventLog(text, raw, returned) ==
    LET event == ParseEvent(raw)
        line == IF ~event.ok THEN <<Line("Error parsing event", "")>>
                ELSE IF event.type = "content_block_stop"
                THEN <<Line("ContentBlockStop", text)>>
                ELSE IF event.type \in {"content_block_start", "content_block_delta"}
                THEN <<>>
                ELSE <<Line("Unhandled event", "event")>>
    IN  line \o IF returned THEN <<Line("Completion finished", text)>> ELSE <<>>


SseInit ==
    /\ ssePc = "start"
    /\ sseReq = NoRequest
    /\ buffered = <<>>
    /\ sink = <<>>
    /\ sseResult = NoResult
    /\ consumed = 0
    /\ tokenFired = FALSE
    /\ sinkAtFire = 0
    /\ deltas = <<>>
    /\ twin = [req |-> NoRequest, pc |-> "start", buffered |-> <<>>,
               result |-> NoResult]
    /\ unknownSeen = FALSE
    /\ sseAnswer = NoAnswer
    /\ sseLog = <<>>
    /\ sseLogOther = <<>>
    /\ sseEnd = ""

\* a variant of completion: the call is made for another model
completionOtherModel(req) == [req EXCEPT !.receiverOpen = FALSE, !.model = "Gpt4O"]

\* completion, lines 238-239: stream_completion with the same key and
\* request, and a sink whose receiver is already dropped
completion(req) == [req EXCEPT !.receiverOpen = FALSE]

\* a variant of StartOutcome: the key is looked at before the model
StartOutcomeKeyFirst(req) ==
    IF generate_api_bearer_key(req.key).kind = "Err"
    THEN [pc |-> "returned", result |-> generate_api_bearer_key(req.key)]
    ELSE IF get_model_string(req.model).kind = "Err"
    THEN [pc |-> "returned", result |-> get_model_string(req.model)]
    ELSE [pc |-> "sent", result |-> NoResult]

\* stream_completion, lines 248-281: the model string, then the headers with
\* the API key; either may return an error
StartOutcome(req) ==
    IF get_model_string(req.model).kind = "Err"
    THEN [pc |-> "returned", result |-> get_model_string(req.model)]
    ELSE IF generate_api_bearer_key(req.key).kind = "Err"
    THEN [pc |-> "returned", result |-> generate_api_bearer_key(req.key)]
    ELSE [pc |-> "sent", result |-> NoResult]

\* stream_completion, lines 295-320: the POST is answered; a transport error
\* returns the reqwest error; on a status that is no success the body is
\* read and printed, and the error of the status is returned, or the error
\* of reading the body
ResponseOutcome(answer) ==
    IF answer.transport
    THEN [pc |-> "returned", result |-> Err("Reqwest")]
    ELSE IF IsSuccess(answer.status)
    THEN [pc |-> "streaming", result |-> NoResult]
    ELSE IF answer.bodyRead
    THEN [pc |-> "returned", result |-> StatusErr(answer.status)]
    ELSE [pc |-> "returned", result |-> Err("Reqwest")]

\* stream_completion, lines 330-375: what one event of the event source
\* does to buffered_string, whether an item is sent to the sink, and whether
\* the loop goes on
EventOutcome(text, raw) ==
    LET event == ParseEvent(raw)
    IN  IF ~event.ok
        THEN \* Err(e) => break, then Ok(buffered_string)
             [pc |-> "returned", result |-> Ok(text), buffered |-> text,
              push |-> FALSE, delta |-> <<>>]
        ELSE IF event.type \in {"content_block_start", "content_block_delta"}
        THEN [pc |-> "streaming", result |-> NoResult,
              buffered |-> text \o event.text, push |-> TRUE,
              delta |-> event.text]
        ELSE \* content_block_stop and the other variants are printed
             [pc |-> "streaming", result |-> NoResult, buffered |-> text,
              push |-> FALSE, delta |-> <<>>]

\* a call of stream_completion is made with a request, and with it a call
\* of completion with the same request
SseStart ==
    /\ UNCHANGED notSseVars
    /\ ssePc = "start"
    /\ \E m \in LLMTypes, k \in KeyTypes, secret \in Secrets, open \in BOOLEAN :
        LET req == [model |-> m, key |-> k, secret |-> secret,
                    receiverOpen |-> open]
        IN  /\ sseReq' = req
            /\ sseLog' = StartLog(req)
            /\ sseLogOther' = StartLog([req EXCEPT !.secret = OtherSecret(secret)])
            /\ ssePc' = StartOutcome(req).pc
            /\ sseResult' = StartOutcome(req).result
            /\ twin' = [req |-> completion(req),
                        pc |-> StartOutcome(completion(req)).pc,
                        buffered |-> <<>>,
                        result |-> StartOutcome(completion(req)).result]
    /\ UNCHANGED <<buffered, sink, consumed, tokenFired, sinkAtFire, deltas,
                   unknownSeen, sseAnswer, sseEnd>>

\* stream_completion, lines 295-322: the vendor answers the POST
SseResponse ==
    /\ UNCHANGED notSseVars
    /\ ssePc = "sent"
    /\ \E answer \in Answers :
        /\ sseAnswer' = answer
        /\ sseLog' = sseLog \o ResponseLog(answer)
        /\ sseLogOther' = sseLogOther \o ResponseLog(answer)
        /\ ssePc' = ResponseOutcome(answer).pc
        /\ sseResult' = ResponseOutcome(answer).result
        /\ twin' = IF twin.pc = "sent"
                   THEN [twin EXCEPT !.pc = ResponseOutcome(answer).pc,
                                     !.result = ResponseOutcome(answer).result]
                   ELSE twin
    /\ UNCHANGED <<sseReq, buffered, sink, consumed, tokenFired, sinkAtFire,
                   deltas, unknownSeen, sseEnd>>

\* stream_completion, lines 328-376: one event of the event source
SseEvent ==
    /\ UNCHANGED notSseVars
    /\ ssePc = "streaming"
    /\ consumed < MaxSseEvents
    /\ consumed' = consumed + 1
    /\ \E raw \in RawEvents :
        LET out == EventOutcome(buffered, raw)
            model_str == get_model_string(sseReq.model).text
            twinOut == EventOutcome(twin.buffered, raw)
        IN  /\ ssePc' = out.pc
            /\ sseResult' = out.result
            /\ buffered' = out.buffered
            /\ sink' = IF out.push
                       THEN SinkSend(sink,
                                     SinkItem(out.buffered, out.delta, model_str),
                                     sseReq.receiverOpen)
                       ELSE sink
            /\ deltas' = IF out.push THEN Append(deltas, out.delta) ELSE deltas
            /\ twin' = IF twin.pc = "streaming"
                       THEN [twin EXCEPT !.pc = twinOut.pc,
                                         !.result = twinOut.result,
                                         !.buffered = twinOut.buffered]
                       ELSE twin
            /\ unknownSeen' = (unknownSeen \/ UnknownType(raw))
            /\ sseLog' = sseLog \o EventLog(out.buffered, raw, out.pc = "returned")
            /\ sseLogOther' =
                 sseLogOther \o EventLog(out.buffered, raw, out.pc = "returned")
    /\ UNCHANGED <<sseReq, tokenFired, sinkAtFire, sseAnswer, sseEnd>>

\* a variant of StreamEndResult: the transport error of the event source is
\* returned
StreamEndResultErr(text, how) ==
    IF how = "transport_error" THEN Err("Reqwest") ELSE Ok(text)

\* stream_completion, lines 328 and 378-380: `while let Some(Ok(event))`
\* is left on None and on Some(Err(_)) alike, and Ok(buffered_string) is
\* returned
StreamEndResult(text, how) == Ok(text)

\* stream_completion, lines 328 and 378-380: the event source ends, or yields
\* a transport error; either ends the loop
SseStreamEnd ==
    /\ UNCHANGED notSseVars
    /\ ssePc = "streaming"
    /\ \E how \in {"end", "transport_error"} :
        /\ ssePc' = "returned"
        /\ sseEnd' = how
        /\ sseResult' = StreamEndResult(buffered, how)
        /\ twin' = IF twin.pc = "streaming"
                   THEN [twin EXCEPT !.pc = "returned",
                                     !.result =
                                         StreamEndResult(twin.buffered, how)]
                   ELSE twin
    /\ UNCHANGED <<sseReq, buffered, sink, consumed, tokenFired, sinkAtFire,
                   deltas, unknownSeen, sseAnswer>>
    /\ sseLog' = Append(sseLog, Line("Completion finished", buffered))
    /\ sseLogOther' = Append(sseLogOther, Line("Completion finished", buffered))

\* the request's cancellation token fires while the stream is consumed;
\* stream_completion takes no token and reads none
FireToken ==
    /\ UNCHANGED notSseVars
    /\ ssePc = "streaming"
    /\ ~tokenFired
    /\ tokenFired' = TRUE
    /\ sinkAtFire' = Len(sink)
    /\ UNCHANGED <<ssePc, sseReq, buffered, sink, sseResult, consumed, deltas,
                   twin, unknownSeen, sseAnswer, sseLog, sseLogOther, sseEnd>>

SseNext ==
    \/ SseStart
    \/ SseResponse
    \/ SseEvent
    \/ SseStreamEnd
    \/ FireToken

(***************************************************************************)
(* ScratchPadAgent: the environment loop (process_environment), the        *)
(* reaction task and the ping task spawned by new, and the consumer of the *)
(* symbol event bus.                                                       *)
(***************************************************************************)
Files == {"a", "b"}

\* AnchoredSymbol::fs_file_path() is None
NoPath == ""

\* the file paths of the anchored symbols of a Human(Anchor) event
AnchorInputs == {<<"a">>, <<NoPath, "b", "a", "b">>}

\* the file paths of the diagnostics of an LSP(Diagnostics) event
LspInputs == {<<"b", "a">>}

Kinds == {"LSP", "Anchor", "Followup", "Symbol", "EditorStateChange", "Ping",
          "ShutDown"}

\* an EnvironmentEventType value: files are the paths of the anchored
\* symbols (Anchor) or of the diagnostics (LSP), edits the edits made
\* (EditorStateChange); inBatch tells of an LSP signal that it arrived on
\* the environment stream while an edit batch was going on
Event(kind, files, edits, inBatch) ==
    [kind |-> kind, files |-> files, edits |-> edits, inBatch |-> inBatch]

NoEvent == Event("", <<>>, <<>>, FALSE)

\* an edit made in the editor, not by a batch of the scratch-pad (those are
\* the numbers of their requests)
EditorEdit == 0

\* the events that can arrive on the environment stream
Inputs ==
    {Event(k, <<>>, <<>>, FALSE) :
        k \in {"Followup", "Symbol", "Ping", "ShutDown"}}
    \cup {Event("EditorStateChange", <<>>, <<EditorEdit>>, FALSE)}
    \cup {Event("LSP", f, <<>>, FALSE) : f \in LspInputs}
    \cup {Event("Anchor", f, <<>>, FALSE) : f \in AnchorInputs}

Requests == 1..MaxEdits

\* the edit requests of a batch on the bus or with its consumer, their
\* reply not yet received
Outstanding(m) == {i \in Requests : m[i] = "onbus"}

\* the edit requests of a batch that are not done with
Pending(m) == {i \in Requests : m[i] \in {"unposted", "onbus"}}

\* the edit requests of a batch that were put on the bus
WasPut(m) == {i \in Requests : m[i] \in {"onbus", "replied"}}

\* a variant of ReactionSend: the event is put in front of the queue
ReactionSendInFront(q, e, open) == IF open THEN <<e>> \o q ELSE q

\* a variant of BatchDone: the batch does not await the replies
BatchDoneWhenPosted(m) == \A i \in Requests : m[i] # "unposted"

\* human_message_anchor, lines 260-262: collect().await returns when every
\* future of the batch has completed
BatchDone(m) == Pending(m) = {}

\* UnboundedSender::send on the reaction queue: the Err of a send on a
\* closed channel is discarded
ReactionSend(q, e, open) == IF open THEN Append(q, e) ELSE q

\* a variant of NewReplyChannel: every request of a batch gets the same channel
NewReplyChannelShared(i) == 1

\* human_message_anchor, line 244: each edit request gets a oneshot channel
\* of its own
NewReplyChannel(i) == i

\* a variant of FocusAfterBatch: focussing is not reset when an edit request
\* got no reply
FocusAfterBatchKeptOnFailure(m) == \E i \in Requests : m[i] = "dropped"

\* human_message_anchor, lines 275-278: the flag after the batch
FocusAfterBatch(m) == FALSE

\* a variant of EnvReady: the loop does not await the anchor's batch
EnvReadyNotAwaiting == envPc \in {"idle", "batch"}

\* process_environment, lines 135 and 145: the loop takes the next event
\* when the handling of the previous one has returned
EnvReady == envPc = "idle"

\* an edit batch is going on: the flag is set and the ESC not yet emitted
BatchGoingOn == envPc = "batch"

PadInit ==
    /\ stream = <<>>
    /\ streamEnded = FALSE
    /\ arrived = 0
    /\ envPc = "idle"
    /\ envEv = NoEvent
    /\ focussing = FALSE
    /\ msgs = [i \in Requests |-> "none"]
    /\ resolved = [c \in Requests |-> 0]
    /\ collected = <<>>
    /\ busOpen = TRUE
    /\ reactionQ = <<>>
    /\ reactOpen = TRUE
    /\ reactPc = "idle"
    /\ reactEv = NoEvent
    /\ diagMsgs = <<>>
    /\ files_context = <<>>
    /\ extra_context = <<>>
    /\ pingPc = "running"
    /\ pings = 0
    /\ uiEvents = 0

envVars == <<envPc, envEv, focussing, msgs, resolved, collected, uiEvents>>

busVars == <<busOpen>>

reactVars == <<reactOpen, reactPc, reactEv, diagMsgs, files_context,
               extra_context>>

pingVars == <<pingPc, pings>>

streamVars == <<stream, streamEnded, arrived>>

\* an event arrives on the environment stream
Arrive ==
    /\ UNCHANGED notPadVars
    /\ ~streamEnded
    /\ arrived + pings < MaxEvents
    /\ \E e \in Inputs :
        stream' = Append(stream,
                         [e EXCEPT !.inBatch = (e.kind = "LSP" /\ BatchGoingOn)])
    /\ arrived' = arrived + 1
    /\ UNCHANGED <<streamEnded, envVars, busVars, reactionQ, reactVars, pingVars>>

\* the environment stream ends
StreamEnd ==
    /\ UNCHANGED notPadVars
    /\ ~streamEnded
    /\ streamEnded' = TRUE
    /\ UNCHANGED <<stream, arrived, envVars, busVars, reactionQ, reactVars,
                   pingVars>>

\* a variant of EnvEditorStateChange: the environment loop appends the edits
\* of the event itself
EnvEditorStateChangeAppends(context, e) == context \o e.edits

\* process_environment, lines 153-157: an EditorStateChange of the
\* environment stream is left alone, and so is extra_context
EnvEditorStateChange(context, e) == context

\* a variant of IsAnchorMessage: a Followup is handled as an Anchor is
IsHumanMessage(e) == e.kind \in {"Anchor", "Followup"}

\* handle_human_message, lines 188-193: of the Human messages the Anchor
\* goes to human_message_anchor, the Followup returns Ok(()) at once
IsAnchorMessage(e) == e.kind = "Anchor"

\* process_environment, lines 135-167: the loop takes the next event
EnvTake ==
    /\ UNCHANGED notPadVars
    /\ UNCHANGED uiEvents
    /\ EnvReady
    /\ stream # <<>>
    /\ LET e == Head(stream)
       IN  /\ stream' = Tail(stream)
           /\ CASE e.kind \in {"LSP", "Ping"} ->
                     /\ reactionQ' = ReactionSend(reactionQ, e, reactOpen)
                     /\ UNCHANGED <<envPc, envEv>>
                [] IsAnchorMessage(e) ->
                     /\ envPc' = "build"
                     /\ envEv' = e
                     /\ UNCHANGED reactionQ
                [] e.kind = "ShutDown" ->
                     /\ reactionQ' = ReactionSend(reactionQ, e, reactOpen)
                     /\ envPc' = "done"
                     /\ UNCHANGED envEv
                [] OTHER -> \* Followup, Symbol, EditorStateChange
                     UNCHANGED <<reactionQ, envPc, envEv>>
           /\ extra_context' = IF e.kind = "EditorStateChange"
                                THEN EnvEditorStateChange(extra_context, e)
                                ELSE extra_context
    /\ UNCHANGED <<streamEnded, arrived, focussing, msgs, resolved, collected,
                   busVars, reactOpen, reactPc, reactEv, diagMsgs,
                   files_context, pingVars>>

\* process_environment, lines 135 and 168: stream.next() yields None
EnvStreamEnd ==
    /\ UNCHANGED notPadVars
    /\ UNCHANGED uiEvents
    /\ envPc = "idle"
    /\ stream = <<>>
    /\ streamEnded
    /\ envPc' = "done"
    /\ UNCHANGED <<streamVars, envEv, focussing, msgs, resolved, collected,
                   busVars, reactionQ, reactVars, pingVars>>

\* a variant of HumanEventSent: the Human event is sent to the reaction
\* queue before symbol_to_edit_request is awaited
HumanEventSentFirst(q, e, open, built) == ReactionSend(q, e, open)

\* human_message_anchor, lines 212-228: the `?` of symbol_to_edit_request
\* returns the error before the Human event is sent to the reaction queue
HumanEventSent(q, e, open, built) ==
    IF built THEN ReactionSend(q, e, open) ELSE q

\* human_message_anchor, lines 211-234: symbol_to_edit_request returns; on
\* Err the handler returns; on Ok the Human event goes to the reaction queue
\* and the flag is set (the lock of line 232 is free: its holders never
\* suspend while they hold it)
AnchorBuild ==
    /\ UNCHANGED notPadVars
    /\ UNCHANGED uiEvents
    /\ envPc = "build"
    /\ \/ /\ envPc' = "idle"
          /\ envEv' = NoEvent
          /\ reactionQ' = HumanEventSent(reactionQ, envEv, reactOpen, FALSE)
          /\ UNCHANGED <<focussing, msgs, resolved, collected>>
       \/ \E n \in 0..MaxEdits :
          /\ reactionQ' = HumanEventSent(reactionQ, envEv, reactOpen, TRUE)
          /\ focussing' = TRUE
          /\ msgs' = [i \in Requests |-> IF i <= n THEN "unposted" ELSE "none"]
          /\ resolved' = [c \in Requests |-> 0]
          /\ collected' = <<>>
          /\ envPc' = "batch"
          /\ UNCHANGED envEv
    /\ UNCHANGED <<streamVars, busVars, reactVars, pingVars>>

\* a variant of SentOnBus: the receiver of a message that could not be sent
\* stays pending
SentOnBusAwaited(open) == "onbus"

\* human_message_anchor, lines 255-256: `let _ = symbol_event_sender.send`;
\* the message of a failed send is dropped with its reply sender, and
\* receiver.await returns at once
SentOnBus(open) == IF open THEN "onbus" ELSE "dropped"

\* human_message_anchor, lines 242-260: the next edit request is put on the
\* symbol event bus with a new reply channel; when the send fails the
\* message and its reply sender are dropped
PostEdit ==
    /\ UNCHANGED notPadVars
    /\ UNCHANGED uiEvents
    /\ envPc = "batch"
    /\ Cardinality(Outstanding(msgs)) < K
    /\ \E i \in Requests :
        /\ msgs[i] = "unposted"
        /\ \A j \in Requests : j < i => msgs[j] # "unposted"
        /\ msgs' = [msgs EXCEPT ![i] = SentOnBus(busOpen)]
    /\ UNCHANGED <<streamVars, envPc, envEv, focussing, resolved, collected,
                   busOpen, reactionQ, reactVars, pingVars>>

\* human_message_anchor, lines 261-273: every receiver has completed; the
\* replies received make the EditorStateChange sent to the reaction queue
EmitEditorStateChange ==
    /\ UNCHANGED notPadVars
    /\ UNCHANGED uiEvents
    /\ envPc = "batch"
    /\ BatchDone(msgs)
    /\ reactionQ' = ReactionSend(reactionQ,
                                 Event("EditorStateChange", <<>>, collected, FALSE),
                                 reactOpen)
    /\ envPc' = "unfocus"
    /\ UNCHANGED <<streamVars, envEv, focussing, msgs, resolved, collected,
                   busVars, reactVars, pingVars>>

\* human_message_anchor, lines 274-290: the flag is reset, the end of the
\* iteration (code_iteration_finished) is sent to the UI, the handler returns and its requests and
\* reply channels are no more
Unfocus ==
    /\ UNCHANGED notPadVars
    /\ uiEvents' = uiEvents + 1
    /\ envPc = "unfocus"
    /\ focussing' = FocusAfterBatch(msgs)
    /\ envPc' = "idle"
    /\ envEv' = NoEvent
    /\ msgs' = [i \in Requests |-> "none"]
    /\ resolved' = [c \in Requests |-> 0]
    /\ collected' = <<>>
    /\ UNCHANGED <<streamVars, busVars, reactionQ, reactVars, pingVars>>

\* the consumer of the symbol event bus resolves the reply channel of a
\* message put on the bus, exactly once, with a reply (a success or an
\* error, which human_message_anchor does not tell apart); the receiver of
\* human_message_anchor (line 256) completes
BusReply ==
    /\ UNCHANGED notPadVars
    /\ UNCHANGED uiEvents
    /\ \E i \in Requests :
        /\ msgs[i] = "onbus"
        /\ msgs' = [msgs EXCEPT ![i] = "replied"]
        /\ resolved' = [resolved EXCEPT ![NewReplyChannel(i)] = @ + 1]
        /\ collected' = Append(collected, i)
    /\ UNCHANGED <<streamVars, envPc, envEv, focussing, busVars, reactionQ,
                   reactVars, pingVars>>

\* the consumer drops its receiver, every message put on the bus replied to
BusClose ==
    /\ UNCHANGED notPadVars
    /\ busOpen
    /\ Outstanding(msgs) = {}
    /\ busOpen' = FALSE
    /\ UNCHANGED <<streamVars, envVars, reactionQ, reactVars, pingVars>>

\* handle_user_anchor_request, lines 297-335: the paths that are Some, each
\* opened once, in order of first occurrence, kept when the open succeeds
RECURSIVE UserContextFiles(_, _, _)
UserContextFiles(paths, seen, openable) ==
    IF paths = <<>> THEN <<>>
    ELSE LET f == Head(paths)
         IN  IF f = NoPath \/ f \in seen
             THEN UserContextFiles(Tail(paths), seen, openable)
             ELSE (IF f \in openable THEN <<f>> ELSE <<>>)
                  \o UserContextFiles(Tail(paths), seen \cup {f}, openable)

\* the elements of a sequence
Range(q) == {q[i] : i \in DOMAIN q}

\* a variant of DiagnosticMessages: the diagnostics are not filtered
DiagnosticMessagesUnfiltered(diagnostics, context) == diagnostics

\* react_to_diagnostics, lines 478-493: the diagnostics of files in
\* files_context
DiagnosticMessages(diagnostics, context) ==
    SelectSeq(diagnostics, LAMBDA f : f \in Range(context))

\* a variant of is_shutdown: a Ping ends the reaction task too
is_shutdown_or_ping(e) == e.kind \in {"ShutDown", "Ping"}

\* new, lines 100-102: reaction_event.is_shutdown() breaks the loop of the
\* reaction task
is_shutdown(e) == e.kind = "ShutDown"

\* new, lines 98-107, react_to_event and react_to_lsp_signal, lines 453-465:
\* the reaction task takes the next event of the reaction queue.  ShutDown
\* ends the task and drops the receiver with what is queued.  For an LSP
\* signal the flag is read: the signal is dropped when it is set, else the
\* diagnostics are filtered by files_context (which this task alone writes)
\* and, when some are left, the diagnostics prompt goes to the LLM.
ReactTake ==
    /\ UNCHANGED notPadVars
    /\ reactPc = "idle"
    /\ reactionQ # <<>>
    /\ LET e == Head(reactionQ)
           messages == DiagnosticMessages(e.files, files_context)
       IN  IF is_shutdown(e)
           THEN /\ reactPc' = "done"
                /\ reactOpen' = FALSE
                /\ reactionQ' = <<>>
                /\ UNCHANGED <<reactEv, diagMsgs>>
           ELSE /\ reactionQ' = Tail(reactionQ)
                /\ UNCHANGED reactOpen
                /\ CASE e.kind = "Anchor" ->
                          reactPc' = "anchor" /\ reactEv' = e /\ UNCHANGED diagMsgs
                     [] e.kind = "EditorStateChange" ->
                          reactPc' = "edits" /\ reactEv' = e /\ UNCHANGED diagMsgs
                     [] e.kind = "LSP" /\ ~focussing /\ messages # <<>> ->
                          reactPc' = "diag_llm" /\ reactEv' = e /\ diagMsgs' = messages
                     [] e.kind = "Ping" ->
                          reactPc' = "ping" /\ reactEv' = e /\ UNCHANGED diagMsgs
                     [] OTHER -> UNCHANGED <<reactPc, reactEv, diagMsgs>>
    /\ UNCHANGED <<streamVars, envVars, busVars, files_context, extra_context,
                   pingVars>>

\* a variant of AfterReaction: a reaction that fails ends the reaction task
AfterReactionStopsOnError(failed) == IF failed THEN "done" ELSE "idle"

\* new, lines 104-106, and react_to_event, lines 170-186: what a reaction
\* returns is discarded and the loop goes on to the next event
AfterReaction(failed) == "idle"

\* a reaction ends, with an error (of the tool or LLM call it awaited) or
\* without
ReactionEnds ==
    /\ reactPc' \in {AfterReaction(failed) : failed \in BOOLEAN}
    /\ reactOpen' = (reactOpen /\ reactPc' # "done")

\* react_to_diagnostics, lines 506-518: scratch_pad_diagnostics returns
ReactDiagDone ==
    /\ UNCHANGED notPadVars
    /\ reactPc = "diag_llm"
    /\ ReactionEnds
    /\ reactEv' = NoEvent
    /\ diagMsgs' = <<>>
    /\ UNCHANGED <<streamVars, envVars, busVars, reactionQ,
                   files_context, extra_context, pingVars>>

\* a variant of FilesContextWritten: the files are added to those of the
\* anchors before
FilesContextExtended(files, user_context_files) == files \o user_context_files

\* handle_user_anchor_request, lines 336-340:
\* *files_context = user_context_files.to_vec()
FilesContextWritten(files, user_context_files) == user_context_files

\* handle_user_anchor_request, lines 297-375: the files of the anchored
\* symbols are opened and become files_context; the LLM call that follows
\* changes nothing here
ReactAnchor ==
    /\ UNCHANGED notPadVars
    /\ reactPc = "anchor"
    /\ \E openable \in SUBSET Files :
        files_context' =
            FilesContextWritten(files_context,
                                UserContextFiles(reactEv.files, {}, openable))
    /\ ReactionEnds
    /\ reactEv' = NoEvent
    /\ UNCHANGED <<streamVars, envVars, busVars, reactionQ, diagMsgs,
                   extra_context, pingVars>>

\* the "\n" between two edits of a text, the edits being numbers
NewLine == -1

RECURSIVE JoinNewline(_)
\* react_to_edits, lines 405-409: the edits made, each as a string, joined
\* by "\n"
JoinNewline(edits_made) ==
    IF edits_made = <<>> THEN <<>>
    ELSE IF Len(edits_made) = 1 THEN edits_made
    ELSE <<Head(edits_made), NewLine>> \o JoinNewline(Tail(edits_made))

\* react_to_edits, lines 383-424: under the lock of extra_context the edits
\* made, joined by newlines, are appended to it; the LLM call that follows
\* changes nothing here
ReactEdits ==
    /\ UNCHANGED notPadVars
    /\ reactPc = "edits"
    /\ extra_context' = extra_context \o JoinNewline(reactEv.edits)
    /\ ReactionEnds
    /\ reactEv' = NoEvent
    /\ UNCHANGED <<streamVars, envVars, busVars, reactionQ, diagMsgs,
                   files_context, pingVars>>

\* react_to_ping, lines 431-449: the scratch pad file is opened
ReactPing ==
    /\ UNCHANGED notPadVars
    /\ reactPc = "ping"
    /\ ReactionEnds
    /\ reactEv' = NoEvent
    /\ UNCHANGED <<streamVars, envVars, busVars, reactionQ, diagMsgs,
                   files_context, extra_context, pingVars>>

\* a variant of PingSendFails: the ping task never sees the channel closed
PingSendNeverFails == FALSE

\* new, line 118: reaction_sender.send(ping) is an Err when the receiver of
\* the reaction queue is dropped
PingSendFails == ~reactOpen

\* new, lines 111-121: the ping task sends a Ping at each tick, and ends
\* when the reaction queue is closed
PingTick ==
    /\ UNCHANGED notPadVars
    /\ pingPc = "running"
    /\ \/ /\ ~PingSendFails
          /\ arrived + pings < MaxEvents
          /\ reactionQ' = Append(reactionQ, Event("Ping", <<>>, <<>>, FALSE))
          /\ pings' = pings + 1
          /\ UNCHANGED pingPc
       \/ /\ PingSendFails
          /\ pingPc' = "done"
          /\ UNCHANGED <<reactionQ, pings>>
    /\ UNCHANGED <<streamVars, envVars, busVars, reactVars>>

PadNext ==
    \/ Arrive
    \/ StreamEnd
    \/ EnvTake
    \/ EnvStreamEnd
    \/ AnchorBuild
    \/ PostEdit
    \/ EmitEditorStateChange
    \/ Unfocus
    \/ BusReply
    \/ BusClose
    \/ ReactTake
    \/ ReactDiagDone
    \/ ReactAnchor
    \/ ReactEdits
    \/ ReactPing
    \/ PingTick

(***************************************************************************)
(* human_message_anchor, lines 235-265: one anchor batch with as many edit *)
(* requests as buffer_unordered(100) holds and more.  The requests are     *)
(* counted instead of told apart: the stream of futures is taken in order, *)
(* and a reply frees the place of its future.                              *)
(***************************************************************************)
BatchInit ==
    /\ bPc = "idle"
    /\ bN = 0
    /\ bUnposted = 0
    /\ bOnBus = 0
    /\ bReplied = 0
    /\ bBusOpen = TRUE
    /\ bChannels = 0
    /\ bMaxChan = 0

\* a variant of CanPollNext: the futures are all polled at once
CanPollNextUnbounded(inFlight) == TRUE

\* buffer_unordered(100), line 260: the next future is taken from the
\* stream and polled while fewer than K are in flight
CanPollNext(inFlight) == inFlight < K

\* human_message_anchor, lines 235-241: symbol_to_edit_request has given the
\* edit requests of the anchor
BatchStart ==
    /\ UNCHANGED notBatchVars
    /\ bPc = "idle"
    /\ \E n \in 0..MaxBatch :
        /\ bN' = n
        /\ bUnposted' = n
    /\ bPc' = "running"
    /\ UNCHANGED <<bOnBus, bReplied, bBusOpen, bChannels, bMaxChan>>

\* human_message_anchor, lines 243-257: the future of the next request is
\* polled: a oneshot channel is made, the message is sent on the bus, and
\* the receiver awaited; when the send fails the message is dropped with its
\* sender and the receiver completes at once
BatchPost ==
    /\ UNCHANGED notBatchVars
    /\ bPc = "running"
    /\ bUnposted > 0
    /\ CanPollNext(bOnBus)
    /\ LET i == bN - bUnposted + 1
           channel == NewReplyChannel(i)
       IN  /\ bChannels' = IF channel > bMaxChan THEN bChannels + 1 ELSE bChannels
           /\ bMaxChan' = IF channel > bMaxChan THEN channel ELSE bMaxChan
    /\ bUnposted' = bUnposted - 1
    /\ bOnBus' = IF bBusOpen THEN bOnBus + 1 ELSE bOnBus
    /\ UNCHANGED <<bPc, bN, bReplied, bBusOpen>>

\* the consumer of the symbol event bus resolves the reply channel of a
\* message on the bus; the receiver of line 256 completes
BatchReply ==
    /\ UNCHANGED notBatchVars
    /\ bPc = "running"
    /\ bOnBus > 0
    /\ bOnBus' = bOnBus - 1
    /\ bReplied' = bReplied + 1
    /\ UNCHANGED <<bPc, bN, bUnposted, bBusOpen, bChannels, bMaxChan>>

\* the consumer drops its receiver, every message put on the bus replied to
BatchBusClose ==
    /\ UNCHANGED notBatchVars
    /\ bBusOpen
    /\ bOnBus = 0
    /\ bBusOpen' = FALSE
    /\ UNCHANGED <<bPc, bN, bUnposted, bOnBus, bReplied, bChannels, bMaxChan>>

\* human_message_anchor, lines 261-265: every future has completed and the
\* results are collected
BatchCollect ==
    /\ UNCHANGED notBatchVars
    /\ bPc = "running"
    /\ bUnposted = 0
    /\ bOnBus = 0
    /\ bPc' = "collected"
    /\ UNCHANGED <<bN, bUnposted, bOnBus, bReplied, bBusOpen, bChannels, bMaxChan>>

BatchNext ==
    \/ BatchStart
    \/ BatchPost
    \/ BatchReply
    \/ BatchBusClose
    \/ BatchCollect

(***************************************************************************)
(* AnthropicRequest: from_client_completion_request, used by               *)
(* stream_completion, and from_client_string_request, used by              *)
(* stream_prompt_completion.  An Option is a sequence of at most one.      *)
(***************************************************************************)
None == <<>>

Some(x) == <<x>>

\* the max tokens a client request may carry
MaxTokenOptions == {None, Some(1), Some(4096), Some(8192), Some(100000)}

\* the temperatures a client request may carry, in tenths
Temperatures == {0, 2}

\* the client requests: a message request (LLMClientCompletionRequest) or a
\* prompt-string request (LLMClientCompletionStringRequest)
ClientRequests ==
    [form : {"messages", "prompt"}, model : LLMTypes,
     max_tokens : MaxTokenOptions, temperature : Temperatures]

NoClientRequest == [form |-> "", model |-> "", max_tokens |-> None, temperature |-> 0]

NoWire == [model |-> "", max_tokens |-> None, temperature |-> 0, stream |-> FALSE]

\* AnthropicRequest::from_client_completion_request
from_client_completion_request(completion_request, model_str) ==
    [model |-> model_str,
     max_tokens |->
        IF completion_request.max_tokens # None
        THEN completion_request.max_tokens
        ELSE IF completion_request.model = "ClaudeSonnet"
        THEN Some(8192)
        ELSE Some(4096),
     temperature |-> completion_request.temperature,
     stream |-> TRUE]

\* AnthropicRequest::from_client_string_request
from_client_string_request(completion_request, model_str) ==
    [model |-> model_str,
     max_tokens |-> completion_request.max_tokens,
     temperature |-> completion_request.temperature,
     stream |-> TRUE]

ReqInit ==
    /\ rqPc = "idle"
    /\ rqIn = NoClientRequest
    /\ rqWire = NoWire

\* stream_completion or stream_prompt_completion is called with a request
ReqCall ==
    /\ UNCHANGED notReqVars
    /\ rqPc = "idle"
    /\ \E r \in ClientRequests : rqIn' = r
    /\ rqPc' = "called"
    /\ UNCHANGED rqWire

\* stream_completion, line 249, and stream_prompt_completion, line 390:
\* get_model_string(request.model())? returns the error of a model the
\* client does not serve
ReqRejected ==
    /\ UNCHANGED notReqVars
    /\ rqPc = "called"
    /\ get_model_string(rqIn.model).kind = "Err"
    /\ rqPc' = "rejected"
    /\ UNCHANGED <<rqIn, rqWire>>

\* stream_completion, lines 259-260: the wire request of a message request
ReqBuildCompletion ==
    /\ UNCHANGED notReqVars
    /\ rqPc = "called"
    /\ rqIn.form = "messages"
    /\ get_model_string(rqIn.model).kind = "Ok"
    /\ rqWire' = from_client_completion_request(rqIn, get_model_string(rqIn.model).text)
    /\ rqPc' = "built"
    /\ UNCHANGED rqIn

\* stream_prompt_completion, lines 391-392: the wire request of a
\* prompt-string request
ReqBuildString ==
    /\ UNCHANGED notReqVars
    /\ rqPc = "called"
    /\ rqIn.form = "prompt"
    /\ get_model_string(rqIn.model).kind = "Ok"
    /\ rqWire' = from_client_string_request(rqIn, get_model_string(rqIn.model).text)
    /\ rqPc' = "built"
    /\ UNCHANGED rqIn

ReqNext ==
    \/ ReqCall
    \/ ReqRejected
    \/ ReqBuildCompletion
    \/ ReqBuildString

\* plan_service before its first run, with no plan.json
(***************************************************************************)
(* CodeSpan: merge_consecutive_spans and to_digests.  A file path is the   *)
(* sequence of its components, the data of a span a sequence of pieces.    *)
(***************************************************************************)
SpanFiles == {<<"a", "mod.rs">>, <<"b", "mod.rs">>, <<"b", "lib.rs">>}

Lines == 1..MaxLine

Datas == {<<"d">>}

\* struct CodeSpan: start_line and end_line are u64, in no order
CodeSpans == [file_path : SpanFiles, start_line : Lines, end_line : Lines,
              data : Datas]

SpanLists == UNION {[1..n -> CodeSpans] : n \in 0..MaxSpans}

\* merge_consecutive_spans, line 140
CHUNK_MERGE_DISTANCE == 0

\* the orders in which a HashMap may hand out its keys
FileOrders ==
    {o \in [1..Cardinality(SpanFiles) -> SpanFiles] :
        \A i, j \in DOMAIN o : i # j => o[i] # o[j]}

\* merge_consecutive_spans, lines 143-149: the spans of a file, in the order
\* of the list
SpansOfFile(code_spans, file_path) ==
    SelectSeq(code_spans, LAMBDA span : span.file_path = file_path)

\* where a stable sort by start_line puts a span that came after the sorted
SortedInsert(sorted, span) ==
    LET k == Cardinality({i \in DOMAIN sorted :
                             sorted[i].start_line <= span.start_line})
    IN  SubSeq(sorted, 1, k) \o <<span>> \o SubSeq(sorted, k + 1, Len(sorted))

RECURSIVE SortByStartLine(_)
\* merge_consecutive_spans, lines 152-156: sort_by on start_line, stable
SortByStartLine(code_snippets) ==
    IF code_snippets = <<>> THEN <<>>
    ELSE SortedInsert(
             SortByStartLine(SubSeq(code_snippets, 1, Len(code_snippets) - 1)),
             code_snippets[Len(code_snippets)])

Panicked == [panicked |-> TRUE, spans |-> <<>>]

Merged(spans) == [panicked |-> FALSE, spans |-> spans]

RECURSIVE MergeSorted(_, _, _, _)
\* merge_consecutive_spans, lines 163-177: the loop over the sorted spans of
\* a file.  The subtraction is of u64: below zero it panics where overflow
\* is checked, and wraps to a value above CHUNK_MERGE_DISTANCE where not
MergeSorted(final_code_snippets, current_code_snippet, code_snippets, checked) ==
    IF code_snippets = <<>>
    THEN Merged(Append(final_code_snippets, current_code_snippet))
    ELSE LET code_snippet == Head(code_snippets)
         IN  IF code_snippet.end_line < current_code_snippet.start_line
             THEN IF checked THEN Panicked
                  ELSE MergeSorted(Append(final_code_snippets, current_code_snippet),
                                   code_snippet, Tail(code_snippets), checked)
             ELSE IF code_snippet.end_line - current_code_snippet.start_line
                        <= CHUNK_MERGE_DISTANCE
             THEN MergeSorted(final_code_snippets,
                              [current_code_snippet EXCEPT
                                  !.end_line = code_snippet.end_line,
                                  !.data = current_code_snippet.data \o code_snippet.data],
                              Tail(code_snippets), checked)
             ELSE MergeSorted(Append(final_code_snippets, current_code_snippet),
                              code_snippet, Tail(code_snippets), checked)

\* merge_consecutive_spans, lines 159-188: the merged spans of one file
MergeFile(code_spans, file_path, checked) ==
    LET code_snippets == SortByStartLine(SpansOfFile(code_spans, file_path))
    IN  IF code_snippets = <<>> THEN Merged(<<>>)
        ELSE MergeSorted(<<>>, Head(code_snippets), Tail(code_snippets), checked)

RECURSIVE FlattenFiles(_, _, _, _)
\* merge_consecutive_spans, lines 159-190: the files in the order of the map
FlattenFiles(code_spans, order, i, checked) ==
    IF i > Len(order) THEN Merged(<<>>)
    ELSE LET first == MergeFile(code_spans, order[i], checked)
             rest == FlattenFiles(code_spans, order, i + 1, checked)
         IN  IF first.panicked \/ rest.panicked THEN Panicked
             ELSE Merged(first.spans \o rest.spans)

\* CodeSpan::merge_consecutive_spans
merge_consecutive_spans(code_spans, order, checked) ==
    FlattenFiles(code_spans, order, 1, checked)

\* CodeSpanDigest::new, lines 197-201: Path::file_name of the file path
BaseName(file_path) == file_path[Len(file_path)]

\* CodeSpanDigest::new: the hash is "{base_name}::{index}"
CodeSpanDigest(code_span, file_path, index) ==
    [code_span |-> code_span, hash |-> <<BaseName(file_path), index>>]

NoCounter == [f \in SpanFiles |-> -1]

RECURSIVE DigestsFrom(_, _)
\* to_digests, lines 276-290: the map over the spans with the counter of
\* each file path (-1: the path is not in the counter)
DigestsFrom(code_spans, file_paths_counter) ==
    IF code_spans = <<>> THEN <<>>
    ELSE LET code_span == Head(code_spans)
             file_path == code_span.file_path
             index == IF file_paths_counter[file_path] # -1
                       THEN file_paths_counter[file_path] + 1
                       ELSE 0
         IN  <<CodeSpanDigest(code_span, file_path, index)>> \o
             DigestsFrom(Tail(code_spans),
                         [file_paths_counter EXCEPT ![file_path] = index])

\* CodeSpan::to_digests
to_digests(code_spans) == DigestsFrom(code_spans, NoCounter)

SpanInit ==
    /\ spPc = "idle"
    /\ spIn = <<>>
    /\ spOut = Merged(<<>>)
    /\ spOut2 = Merged(<<>>)
    /\ spDigests = <<>>

\* a caller has a list of code spans
SpanCall ==
    /\ UNCHANGED notSpanVars
    /\ spPc = "idle"
    /\ \E code_spans \in SpanLists : spIn' = code_spans
    /\ spPc' = "called"
    /\ UNCHANGED <<spOut, spOut2, spDigests>>

\* merge_consecutive_spans of the list
SpanMerge ==
    /\ UNCHANGED notSpanVars
    /\ spPc = "called"
    /\ \E order \in FileOrders, checked \in BOOLEAN :
          spOut' = merge_consecutive_spans(spIn, order, checked)
    /\ spPc' = "merged"
    /\ UNCHANGED <<spIn, spOut2, spDigests>>

\* merge_consecutive_spans of what merge_consecutive_spans returned
SpanMergeAgain ==
    /\ UNCHANGED notSpanVars
    /\ spPc = "merged"
    /\ ~spOut.panicked
    /\ \E order \in FileOrders, checked \in BOOLEAN :
          spOut2' = merge_consecutive_spans(spOut.spans, order, checked)
    /\ spPc' = "merged_twice"
    /\ UNCHANGED <<spIn, spOut, spDigests>>

\* to_digests of the list
SpanDigests ==
    /\ UNCHANGED notSpanVars
    /\ spPc = "called"
    /\ spDigests' = to_digests(spIn)
    /\ spPc' = "digested"
    /\ UNCHANGED <<spIn, spOut, spOut2>>

SpanNext ==
    \/ SpanCall
    \/ SpanMerge
    \/ SpanMergeAgain
    \/ SpanDigests

(***************************************************************************)
(* CodeSymbolImportantResponse::fix_symbol_names.  A symbol name is the    *)
(* sequence of its identifiers and separators, a file path the sequence of *)
(* its characters.                                                         *)
(***************************************************************************)
SymbolNames == {<<"A">>, <<"A", "::", "b">>, <<"A", ".", "b">>,
                <<"A", "::", "b", "::", "c">>, <<"A", ".", "b", ".", "c">>,
                <<"A", "::", "b", ".", "c">>, <<"A", ".", "b", "::", "c">>}

SymbolFiles == {<<"a", ".", "r", "s">>, <<"a", ".", "p", "y">>,
                <<"a", ".", "t", "s">>, <<"c", "o", "p", "y">>}

\* struct CodeSymbolWithThinking
SymbolsWithThinking ==
    [code_symbol : SymbolNames, thinking : {"thinking"}, file_path : SymbolFiles]

\* struct CodeSymbolWithSteps
SymbolsWithSteps ==
    [code_symbol : SymbolNames, steps : {<<"step">>}, is_new : BOOLEAN,
     file_path : SymbolFiles]

\* struct CodeSymbolImportantResponse
Responses ==
    UNION {[symbols : [1..n[1] -> SymbolsWithThinking],
            ordered_symbols : [1..n[2] -> SymbolsWithSteps]] :
           n \in {m \in (0..MaxSymbols) \X (0..MaxSymbols) :
                     m[1] + m[2] <= MaxSymbols}}

NoResponse == [symbols |-> <<>>, ordered_symbols |-> <<>>]

\* str::ends_with
ends_with(text, suffix) ==
    /\ Len(text) >= Len(suffix)
    /\ SubSeq(text, Len(text) - Len(suffix) + 1, Len(text)) = suffix

\* str::contains of a separator
contains(code_symbol, separator) ==
    \E i \in DOMAIN code_symbol : code_symbol[i] = separator

\* where the first separator of a name that contains it is
FirstSeparator(code_symbol, separator) ==
    CHOOSE i \in DOMAIN code_symbol :
        /\ code_symbol[i] = separator
        /\ \A j \in 1..(i - 1) : code_symbol[j] # separator

RECURSIVE split(_, _)
\* str::split(separator).collect::<Vec<_>>()
split(code_symbol, separator) ==
    IF ~contains(code_symbol, separator) THEN <<code_symbol>>
    ELSE LET i == FirstSeparator(code_symbol, separator)
         IN  <<SubSeq(code_symbol, 1, i - 1)>> \o
             split(SubSeq(code_symbol, i + 1, Len(code_symbol)), separator)

\* a variant of FirstPart: the last part of the name is taken
LastPart(code_symbol_parts) == code_symbol_parts[Len(code_symbol_parts)]

\* fix_symbol_name: code_symbol_parts.remove(0)
FirstPart(code_symbol_parts) == Head(code_symbol_parts)

\* TSLanguageConfig::generate_object_qualifier: the range of the object
\* qualifier of a qualified name, where the parser finds one
generate_object_qualifier(code_symbol, separator, found) ==
    IF found /\ contains(code_symbol, separator)
    THEN Some([start_byte |-> 1,
               end_byte |-> FirstSeparator(code_symbol, separator) - 1])
    ELSE None

\* fix_symbol_name, lines 785-805 and their three copies: the object
\* qualifier the parser finds, or else the first part of the split name
ObjectQualifier(code_symbol, separator, found) ==
    LET range == generate_object_qualifier(code_symbol, separator, found)
    IN  IF range # None
        THEN SubSeq(code_symbol, range[1].start_byte, range[1].end_byte)
        ELSE LET code_symbol_parts == split(code_symbol, separator)
             IN  IF code_symbol_parts = <<>> THEN code_symbol
                 ELSE FirstPart(code_symbol_parts)

\* CodeSymbolWithThinking::fix_symbol_name
ThinkingFixSymbolName(symbol, found) ==
    IF ends_with(symbol.file_path, <<"p", "y">>)
    THEN IF contains(symbol.code_symbol, ".")
         THEN [symbol EXCEPT
                  !.code_symbol = ObjectQualifier(symbol.code_symbol, ".", found)]
         ELSE symbol
    ELSE IF ends_with(symbol.file_path, <<"r", "s">>)
    THEN IF contains(symbol.code_symbol, "::")
         THEN [symbol EXCEPT
                  !.code_symbol = ObjectQualifier(symbol.code_symbol, "::", found)]
         ELSE symbol
    ELSE symbol

\* CodeSymbolWithSteps::fix_symbol_name: a name in a "py" file is not tested
\* for the separator first
StepsFixSymbolName(symbol, found) ==
    IF ends_with(symbol.file_path, <<"p", "y">>)
    THEN [symbol EXCEPT
             !.code_symbol = ObjectQualifier(symbol.code_symbol, ".", found)]
    ELSE IF ends_with(symbol.file_path, <<"r", "s">>)
    THEN IF contains(symbol.code_symbol, "::")
         THEN [symbol EXCEPT
                  !.code_symbol = ObjectQualifier(symbol.code_symbol, "::", found)]
         ELSE symbol
    ELSE symbol

\* CodeSymbolImportantResponse::fix_symbol_names
fix_symbol_names(response, found) ==
    [symbols |->
        [i \in DOMAIN response.symbols |->
            ThinkingFixSymbolName(response.symbols[i], found)],
     ordered_symbols |->
        [i \in DOMAIN response.ordered_symbols |->
            StepsFixSymbolName(response.ordered_symbols[i], found)]]

SymInit ==
    /\ syPc = "idle"
    /\ syIn = NoResponse
    /\ syOut = NoResponse

\* a caller has the response of the model
SymCall ==
    /\ UNCHANGED notSymVars
    /\ syPc = "idle"
    /\ \E response \in Responses : syIn' = response
    /\ syPc' = "called"
    /\ UNCHANGED syOut

\* fix_symbol_names of the response, with a parser that finds the object
\* qualifiers or one that does not
SymFix ==
    /\ UNCHANGED notSymVars
    /\ syPc = "called"
    /\ \E found \in BOOLEAN : syOut' = fix_symbol_names(syIn, found)
    /\ syPc' = "fixed"
    /\ UNCHANGED syIn

SymNext ==
    \/ SymCall
    \/ SymFix

(***************************************************************************)
(* LSPGoToDefinition::invoke.  A URL is the sequence of its parts.  The    *)
(* ToolInput and ToolError types (agentic/tool/input.rs, errors.rs) are    *)
(* not among the source files: is_go_to_definition gives the request of a  *)
(* go-to-definition input and an error for every other input.              *)
(***************************************************************************)
EditorUrls == {"http://localhost:42423", "http://localhost:42424"}

GtdFiles == {"a.rs", "b.rs"}

\* GoToDefinitionRequest, lines 9-14, inside the ToolInput that holds it
ToolInputs ==
    [tool : {"GoToDefinition", "OpenFile"}, fs_file_path : GtdFiles,
     editor_url : EditorUrls, position : 0..MaxLine]

NoToolInput ==
    [tool |-> "", fs_file_path |-> "", editor_url |-> "", position |-> 0]

\* GoToDefinitionResponse, lines 26-29: the definitions found
GoToDefinitionResponses == {<<>>} \cup {<<f>> : f \in GtdFiles}

ToolOk(response) == [kind |-> "Ok", error |-> "", definitions |-> response]

ToolErr(error) == [kind |-> "Err", error |-> error, definitions |-> <<>>]

NoToolOutput == [kind |-> "", error |-> "", definitions |-> <<>>]

is_go_to_definition(input) == input.tool = "GoToDefinition"

\* invoke, line 70
editor_endpoint(context) == <<context.editor_url, "/go_to_definition">>

\* a variant of Post: the POST is sent again when the first one fails
PostWithRetry(posts, endpoint, sent) ==
    IF sent THEN Append(posts, endpoint)
    ELSE Append(Append(posts, endpoint), endpoint)

\* invoke, lines 71-77: client.post(editor_endpoint)...send(), once,
\* whether it succeeds or not
Post(posts, endpoint, sent) == Append(posts, endpoint)

GtdInit ==
    /\ gtPc = "idle"
    /\ gtIn = NoToolInput
    /\ gtPosts = <<>>
    /\ gtOut = NoToolOutput

\* invoke is called with a tool input
GtdInvoke ==
    /\ UNCHANGED notGtdVars
    /\ gtPc = "idle"
    /\ \E input \in ToolInputs : gtIn' = input
    /\ gtPc' = "called"
    /\ UNCHANGED <<gtPosts, gtOut>>

\* line 68: input.is_go_to_definition()? returns the error of an input of
\* another tool
GtdWrongInput ==
    /\ UNCHANGED notGtdVars
    /\ gtPc = "called"
    /\ ~is_go_to_definition(gtIn)
    /\ gtOut' = ToolErr("WrongToolInput")
    /\ gtPc' = "wrong_input"
    /\ UNCHANGED <<gtIn, gtPosts>>

\* line 74: serde_json::to_string(&context) fails, before anything is sent
GtdSerializeFails ==
    /\ UNCHANGED notGtdVars
    /\ gtPc = "called"
    /\ is_go_to_definition(gtIn)
    /\ gtOut' = ToolErr("SerdeConversionFailed")
    /\ gtPc' = "serialize_failed"
    /\ UNCHANGED <<gtIn, gtPosts>>

\* lines 71-77: the POST is sent; send() returns the response, or an error
\* that is mapped to ErrorCommunicatingWithEditor
GtdSend ==
    /\ UNCHANGED notGtdVars
    /\ gtPc = "called"
    /\ is_go_to_definition(gtIn)
    /\ \E sent \in BOOLEAN :
          /\ gtPosts' = Post(gtPosts, editor_endpoint(gtIn), sent)
          /\ gtPc' = IF sent THEN "sent" ELSE "send_failed"
          /\ gtOut' = IF sent THEN gtOut
                      ELSE ToolErr("ErrorCommunicatingWithEditor")
    /\ UNCHANGED gtIn

\* lines 79-82: response.json() gives the GoToDefinitionResponse, or an
\* error (the body cannot be read to its end or is not a
\* GoToDefinitionResponse) that is mapped to SerdeConversionFailed
GtdResponse ==
    /\ UNCHANGED notGtdVars
    /\ gtPc = "sent"
    /\ \/ /\ \E response \in GoToDefinitionResponses :
                gtOut' = ToolOk(response)
          /\ gtPc' = "returned"
       \/ /\ gtOut' = ToolErr("SerdeConversionFailed")
          /\ gtPc' = "json_failed"
    /\ UNCHANGED <<gtIn, gtPosts>>

GtdNext ==
    \/ GtdInvoke
    \/ GtdWrongInput
    \/ GtdSerializeFails
    \/ GtdSend
    \/ GtdResponse

(***************************************************************************)
(* swe_bench: the trajectory loop of main.  The session service and the    *)
(* tool box it calls are not among the source files; a call of them        *)
(* returns Ok or Err.                                                      *)
(***************************************************************************)
InstanceIds == {"django-1", "django-2"}

RunIds == {"r1", "r2"}

SweInputs == [instance_id : InstanceIds, run_id : RunIds, repo_ok : BOOLEAN]

NoSweInput == [instance_id |-> "", run_id |-> "", repo_ok |-> FALSE]

\* main, lines 197-201
session_id(input) == <<input.instance_id, "-", input.run_id>>

\* main, lines 206-217
storage_path(input) == <<"session", session_id(input)>>

\* main, line 219
initial_exchange_id == 0

\* main, lines 246-263: the session id, the storage path and the exchange
\* id given to tool_use_agentic_swe_bench
RunArguments(input) ==
    [session_id |-> session_id(input), storage_path |-> storage_path(input),
     exchange_id |-> initial_exchange_id]

\* a variant of TriesExhausted: one more run is allowed
TriesExhaustedLate(tries) == tries > MaxTrajectoryTries + 1

\* main, lines 242-245
TriesExhausted(tries) == tries > MaxTrajectoryTries

SweInit ==
    /\ swPc = "idle"
    /\ swIn = NoSweInput
    /\ trajectory_tries = 0
    /\ swRuns = <<>>
    /\ swAgentFailed = FALSE
    /\ swExit = <<>>

\* main is started and reaches the loop, line 240
SweStart ==
    /\ UNCHANGED notSweVars
    /\ swPc = "idle"
    /\ \E input \in SweInputs : swIn' = input
    /\ swPc' = "loop"
    /\ UNCHANGED <<trajectory_tries, swRuns, swAgentFailed, swExit>>

\* lines 242-245: the counter is incremented and the loop left when it is
\* above 5
SweLoopTop ==
    /\ UNCHANGED notSweVars
    /\ swPc = "loop"
    /\ trajectory_tries' = trajectory_tries + 1
    /\ swPc' = IF TriesExhausted(trajectory_tries + 1) THEN "done"
               ELSE "agent"
    /\ UNCHANGED <<swIn, swRuns, swAgentFailed, swExit>>

\* lines 246-263: RepoRef::local(..).expect panics before the call; else
\* tool_use_agentic_swe_bench runs, and its result is discarded
SweAgentRun ==
    /\ UNCHANGED notSweVars
    /\ swPc = "agent"
    /\ \/ /\ ~swIn.repo_ok
          /\ swPc' = "panicked"
          /\ UNCHANGED <<swRuns, swAgentFailed>>
       \/ /\ swIn.repo_ok
          /\ swRuns' = Append(swRuns, RunArguments(swIn))
          /\ \E failed \in BOOLEAN : swAgentFailed' = failed
          /\ swPc' = "diff"
    /\ UNCHANGED <<swIn, trajectory_tries, swExit>>

\* lines 272-275: git diff, whose failure panics
SweGitDiff ==
    /\ UNCHANGED notSweVars
    /\ swPc = "diff"
    /\ \E ok \in BOOLEAN : swPc' = IF ok THEN "tests" ELSE "panicked"
    /\ UNCHANGED <<swIn, trajectory_tries, swRuns, swAgentFailed, swExit>>

\* lines 276-283: the tests are run, a failure of the harness panics, and
\* the loop is left when the exit code is 0
SweRunTests ==
    /\ UNCHANGED notSweVars
    /\ swPc = "tests"
    /\ \/ /\ swPc' = "panicked"
          /\ UNCHANGED swExit
       \/ \E exit_code \in {0, 1} :
             /\ swExit' = Append(swExit, exit_code)
             /\ swPc' = IF exit_code = 0 THEN "done" ELSE "trajectory"
    /\ UNCHANGED <<swIn, trajectory_tries, swRuns, swAgentFailed>>

\* lines 284-287: the trajectory is read, a failure panics, and the loop
\* goes round
SweTrajectory ==
    /\ UNCHANGED notSweVars
    /\ swPc = "trajectory"
    /\ \E ok \in BOOLEAN : swPc' = IF ok THEN "loop" ELSE "panicked"
    /\ UNCHANGED <<swIn, trajectory_tries, swRuns, swAgentFailed, swExit>>

SweNext ==
    \/ SweStart
    \/ SweLoopTop
    \/ SweAgentRun
    \/ SweGitDiff
    \/ SweRunTests
    \/ SweTrajectory

PlanIdle == PlanInit /\ disk = NoFile

Init == PlanInit /\ SseInit /\ PadInit /\ BatchInit /\ ReqInit
    /\ SpanInit /\ SymInit /\ GtdInit /\ SweInit

PadSpecInit == PlanIdle /\ SseInit /\ PadInit /\ BatchInit /\ ReqInit
    /\ SpanInit /\ SymInit /\ GtdInit /\ SweInit

BatchSpecInit == PlanIdle /\ SseInit /\ PadInit /\ BatchInit /\ ReqInit
    /\ SpanInit /\ SymInit /\ GtdInit /\ SweInit

ReqSpecInit == PlanIdle /\ SseInit /\ PadInit /\ BatchInit /\ ReqInit
    /\ SpanInit /\ SymInit /\ GtdInit /\ SweInit

ReqSpec == ReqSpecInit /\ [][ReqNext]_vars

\* the batch under the scheduling of its futures: a future that can be polled
\* is polled, and the consumer of the bus replies to what is on the bus
BatchFairSpec ==
    /\ BatchSpecInit
    /\ [][BatchNext]_vars
    /\ WF_vars(BatchPost)
    /\ WF_vars(BatchReply)
    /\ WF_vars(BatchCollect)

Spec == PadSpecInit /\ [][PadNext]_vars

PlanSpec == Init /\ [][PlanNext]_vars

\* the scratch-pad under the scheduling of its tasks: the reaction task and
\* the ping task are spawned on the runtime and are polled whenever they can
\* proceed, the ticks of the ping interval keep coming, and the calls a
\* reaction awaits return
PadFairSpec ==
    /\ PadSpecInit
    /\ [][PadNext]_vars
    /\ WF_vars(ReactTake)
    /\ WF_vars(ReactDiagDone)
    /\ WF_vars(ReactAnchor)
    /\ WF_vars(ReactEdits)
    /\ WF_vars(ReactPing)
    /\ WF_vars(PingTick)

\* the scratch-pad under the scheduling of the environment task: the loop
\* of process_environment goes on whenever what it awaits has completed
AnchorFairSpec ==
    /\ PadSpecInit
    /\ [][PadNext]_vars
    /\ WF_vars(PostEdit)
    /\ WF_vars(EmitEditorStateChange)
    /\ WF_vars(Unfocus)

SseSpecInit == PlanIdle /\ SseInit /\ PadInit /\ BatchInit /\ ReqInit
    /\ SpanInit /\ SymInit /\ GtdInit /\ SweInit

SseSpec == SseSpecInit /\ [][SseNext]_vars

SpanSpecInit == PlanIdle /\ SseInit /\ PadInit /\ BatchInit /\ ReqInit
    /\ SpanInit /\ SymInit /\ GtdInit /\ SweInit

SpanSpec == SpanSpecInit /\ [][SpanNext]_vars

SymSpecInit == PlanIdle /\ SseInit /\ PadInit /\ BatchInit /\ ReqInit
    /\ SpanInit /\ SymInit /\ GtdInit /\ SweInit

SymSpec == SymSpecInit /\ [][SymNext]_vars

GtdSpecInit == PlanIdle /\ SseInit /\ PadInit /\ BatchInit /\ ReqInit
    /\ SpanInit /\ SymInit /\ GtdInit /\ SweInit

GtdSpec == GtdSpecInit /\ [][GtdNext]_vars

SweSpecInit == PlanIdle /\ SseInit /\ PadInit /\ BatchInit /\ ReqInit
    /\ SpanInit /\ SymInit /\ GtdInit /\ SweInit

SweSpec == SweSpecInit /\ [][SweNext]_vars

(***************************************************************************)
(* Properties of the scratch-pad.                                          *)
(***************************************************************************)
\* C1: no diagnostics reaction (the diagnostics prompt at the LLM) is going
\* on while the focussing flag is set.
C1_NoDiagnosticsWhileFocussing ==
    ~(focussing /\ reactPc = "diag_llm")

\* C2: no reply channel of a batch is ever resolved twice, and when the
\* batch has collected its replies every request that was put on the symbol
\* event bus has exactly one reply on its channel, every other request none.
C2_ExactlyOneReply ==
    /\ \A c \in Requests : resolved[c] <= 1
    /\ envPc = "unfocus" =>
          \A i \in Requests :
              resolved[i] = IF i \in WasPut(msgs) THEN 1 ELSE 0

\* C2 witness: a batch has ended with two requests put on the bus.
C2_Witness ==
    /\ envPc = "unfocus"
    /\ Cardinality(WasPut(msgs)) >= 2

C9_BatchTimeDiagnosticsDropped ==
    ~(reactPc = "diag_llm" /\ reactEv.inBatch)

ShutDownReceived ==
    /\ envPc = "done"
    /\ \/ reactPc = "done"
       \/ \E k \in DOMAIN reactionQ : reactionQ[k].kind = "ShutDown"

AllTasksTerminated ==
    /\ envPc = "done"
    /\ reactPc = "done"
    /\ pingPc = "done"

\* C11: once ShutDown is received on the environment stream the environment
\* loop has stopped for good; the reaction task stops when it dequeues the
\* ShutDown and reacts to nothing afterwards; the ping task then exits:
\* eventually all three tasks have terminated, and stay so.
C11_ShutDownTerminatesAllTasks ==
    /\ ShutDownReceived ~> AllTasksTerminated
    /\ [][envPc = "done" => /\ envPc' = "done"
                             /\ Len(stream') >= Len(stream)
                             /\ focussing' = focussing]_vars
    /\ [][reactPc = "done" =>
            /\ reactPc' = "done"
            /\ UNCHANGED <<reactEv, diagMsgs, files_context, extra_context>>]_vars
    /\ [][pingPc = "done" => pingPc' = "done" /\ reactionQ' = reactionQ]_vars

\* C11 witness: all three tasks have terminated, after the reaction task
\* had reacted to an anchor and the ping task had sent a Ping.
C11_Witness ==
    /\ AllTasksTerminated
    /\ pings >= 1
    /\ files_context # <<>>

C13_AtMostKOutstanding ==
    /\ [](bOnBus <= K)
    /\ [](bChannels = bN - bUnposted)
    /\ (bPc = "running") ~> (bPc = "collected" /\ bUnposted = 0)

\* C13 witness: a batch of more than K requests has K of them outstanding
\* and the others wait unposted.
C13_Witness ==
    /\ bN > K
    /\ bOnBus = K
    /\ bUnposted > 0
    /\ bReplied > 0

\* the EditorStateChange events on the reaction queue
EditorStateChanges(q) == {k \in DOMAIN q : q[k].kind = "EditorStateChange"}

\* C14: a batch that was started is left only by emitting one
\* EditorStateChange, after every request has got its reply or lost its
\* reply channel; the edits of the event are exactly the replies received
\* (none for a request without a reply, be it that its send on the bus
\* failed), and nothing else puts an EditorStateChange on the reaction queue.
C14_OneEditorStateChangePerBatch ==
    /\ [][(envPc = "batch" /\ envPc' # "batch") =>
            /\ Pending(msgs) = {}
            /\ reactionQ' = Append(reactionQ, Event("EditorStateChange", <<>>,
                                                    collected, FALSE))
            /\ Range(collected) = {i \in Requests : msgs[i] = "replied"}
            /\ Len(collected) = Cardinality(Range(collected))
            /\ envPc' = "unfocus"]_vars
    /\ [][Cardinality(EditorStateChanges(reactionQ'))
             > Cardinality(EditorStateChanges(reactionQ)) =>
            /\ envPc = "batch" /\ envPc' = "unfocus"
            /\ Cardinality(EditorStateChanges(reactionQ'))
                 = Cardinality(EditorStateChanges(reactionQ)) + 1]_vars
    /\ [][envPc = "unfocus" => reactionQ' = reactionQ \/ envPc' = "unfocus"]_vars

\* C14 witness: a batch of two requests, one replied to and one dropped
\* without a reply, has emitted its EditorStateChange with the one reply.
C14_Witness ==
    /\ envPc = "unfocus"
    /\ \E i, j \in Requests : msgs[i] = "replied" /\ msgs[j] = "dropped"
    /\ reactionQ # <<>>
    /\ reactionQ[Len(reactionQ)].kind = "EditorStateChange"
    /\ Len(reactionQ[Len(reactionQ)].edits) = 1

\* C26: the batch of a Human(Anchor) event resets focussing before it emits
\* its EditorStateChange: when the event appears on the reaction queue the
\* flag is down.
C26_FocussingResetBeforeEmit ==
    [][Cardinality(EditorStateChanges(reactionQ')) >
           Cardinality(EditorStateChanges(reactionQ))
       => ~focussing']_vars

\* the Human(Anchor) event of a batch is still to be reacted to: its files
\* are not in files_context yet
AnchorPending ==
    \/ reactPc = "anchor"
    \/ \E k \in DOMAIN reactionQ : reactionQ[k].kind = "Anchor"

\* C27: when focussing is set and when an edit request is posted on the
\* symbol event bus, the files of the anchored symbols have been put into
\* files_context.
C27_FilesSnapshottedBeforeFocus ==
    [][((~focussing /\ focussing') \/ WasPut(msgs') # WasPut(msgs))
       => ~AnchorPending']_vars

\* C28: files_context and extra_context are written by one handler at a
\* time: a step that changes files_context ends the reaction to an anchor,
\* a step that changes extra_context ends the reaction to an
\* EditorStateChange, no step of another task changes them, and what
\* extra_context held is kept.
C28_ContextWritesDoNotInterleave ==
    [][/\ files_context' # files_context =>
             (reactPc = "anchor" /\ reactPc' = "idle")
       /\ extra_context' # extra_context =>
             /\ reactPc = "edits" /\ reactPc' = "idle"
             /\ Len(extra_context') >= Len(extra_context)
             /\ SubSeq(extra_context', 1, Len(extra_context)) = extra_context]_vars

\* C28 witness: the reaction task is appending the edits of a second batch
\* to an extra_context that holds those of the first, while the handler of
\* the anchor has not yet reset focussing.
C28_Witness ==
    /\ reactPc = "edits"
    /\ reactEv.edits # <<>>
    /\ extra_context # <<>>
    /\ focussing
    /\ envPc = "unfocus"

\* C29: every EditorStateChange is reacted to by appending its edits,
\* joined by newlines, to extra_context: extra_context changes only so, and
\* an EditorStateChange taken from the environment stream is handed to the
\* reaction task (or its edits are appended at once).
C29_EditorStateChangeAppendsEdits ==
    [][/\ extra_context' # extra_context =>
             extra_context' = extra_context \o JoinNewline(reactEv.edits)
       /\ (/\ stream # <<>>
           /\ stream' = Tail(stream)
           /\ Head(stream).kind = "EditorStateChange"
           /\ reactOpen)
          => \/ reactionQ' = Append(reactionQ, Head(stream))
             \/ extra_context' =
                   extra_context \o JoinNewline(Head(stream).edits)]_vars

\* C30: the diagnostics prompt is made only of diagnostics, at least one,
\* of files that are in files_context.
C30_DiagnosticsOnlyOfContextFiles ==
    reactPc = "diag_llm" =>
        /\ diagMsgs # <<>>
        /\ \A k \in DOMAIN diagMsgs :
              /\ \E j \in DOMAIN files_context : files_context[j] = diagMsgs[k]
              /\ \E j \in DOMAIN reactEv.files : reactEv.files[j] = diagMsgs[k]

\* C30 witness: of the diagnostics of an LSP signal, those of a file that
\* is not in files_context were left out of the prompt.
C30_Witness ==
    /\ reactPc = "diag_llm"
    /\ diagMsgs # <<>>
    /\ Len(diagMsgs) < Len(reactEv.files)

\* the environment loop takes an event of the given kind from the stream
EnvTakes(kind) ==
    /\ stream # <<>>
    /\ Head(stream).kind = kind
    /\ stream' = Tail(stream)

\* C31: a Human(Followup) event is a no-op: taking it changes neither
\* focussing nor files_context nor extra_context, posts nothing on the
\* symbol event bus, puts nothing on the reaction queue, sends no UI event,
\* and leaves the environment loop ready for the next event.
C31_FollowupIsNoOp ==
    [][EnvTakes("Followup") =>
          /\ UNCHANGED <<focussing, files_context, extra_context, msgs,
                         reactionQ, uiEvents, busOpen>>
          /\ envPc' = "idle"]_vars

\* C31 witness: the environment loop is about to take a Followup while
\* files_context and extra_context hold what an earlier anchor left.
C31_Witness ==
    /\ EnvReady
    /\ stream # <<>>
    /\ Head(stream).kind = "Followup"
    /\ files_context # <<>>
    /\ extra_context # <<>>
    /\ uiEvents = 1

\* the reaction task is reacting to an event
Reacting == reactPc \in {"diag_llm", "anchor", "edits", "ping"}

\* C32: a reaction that ends, in an error or not, never stops the
\* scratch-pad: the reaction task goes on to take the next event, the
\* reaction queue stays open with every event queued behind, and the
\* environment loop is where it was.
C32_FailedReactionStopsNothing ==
    [][(Reacting /\ reactPc' # reactPc) =>
          /\ reactPc' = "idle"
          /\ reactOpen'
          /\ reactionQ' = reactionQ
          /\ UNCHANGED <<envPc, stream, pingPc>>]_vars

\* C32 witness: the reaction task is reacting to a ping, a reaction whose
\* file_open can fail, with an LSP signal queued behind it and the
\* environment loop in a batch.
C32_Witness ==
    /\ reactPc = "ping"
    /\ reactOpen
    /\ reactionQ # <<>>
    /\ Head(reactionQ).kind = "LSP"
    /\ envPc = "batch"

\* every edit request of the batch is done with: replied to, or dropped
\* with its reply channel
RepliesDone == \A i \in Requests : msgs[i] \in {"none", "replied", "dropped"}

\* C34: the handling of an anchor batch ends, with focussing false, exactly
\* when every edit request it posted has its reply channel resolved or
\* dropped: it does not end before, and it ends once they all are; a send
\* on the closed bus leaves nothing to wait for; and while the batch lasts
\* the environment loop takes nothing from the stream.
C34_BatchEndsIffRepliesDone ==
    /\ [](envPc = "unfocus" => RepliesDone)
    /\ [][(envPc # "idle" /\ envPc' = "idle") => ~focussing']_vars
    /\ (envPc = "batch" /\ RepliesDone) ~> (envPc = "idle" /\ ~focussing)
    /\ [](~busOpen => \A i \in Requests : msgs[i] # "onbus")
    /\ [][(envPc \in {"batch", "unfocus"}) =>
            (Len(stream') >= Len(stream))]_vars

\* C34 witness: the batch has ended its wait with one reply received and one
\* request dropped by the closed bus, and a ShutDown waits on the stream.
C34_Witness ==
    /\ envPc = "unfocus"
    /\ msgs[1] = "replied"
    /\ msgs[2] = "dropped"
    /\ stream # <<>>
    /\ Head(stream).kind = "ShutDown"

\* human_message_anchor returns the error of symbol_to_edit_request
AnchorBuildFails == envPc = "build" /\ envPc' = "idle"

\* C35: when symbol_to_edit_request returns an error the handling of the
\* anchor stops with no effect: focussing stays false, nothing is posted on
\* the symbol event bus, nothing is put on the reaction queue, files_context
\* and extra_context are as they were, no UI event is sent, and the
\* environment loop is ready for the next event of the stream.
C35_FailedAnchorHasNoEffect ==
    [][AnchorBuildFails =>
          /\ ~focussing /\ ~focussing'
          /\ UNCHANGED <<msgs, reactionQ, files_context, extra_context,
                         uiEvents, stream, busOpen, collected>>
          /\ \A i \in Requests : msgs[i] = "none"
          /\ EnvReady']_vars

\* C35 witness: symbol_to_edit_request is awaited for a second anchor, with
\* the files of the first in files_context, the reaction queue open and
\* another event waiting on the stream.
C35_Witness ==
    /\ envPc = "build"
    /\ envEv.kind = "Anchor"
    /\ files_context # <<>>
    /\ reactOpen
    /\ stream # <<>>
    /\ uiEvents = 1

\* where a path occurs first in a list of paths
FirstIndexOf(paths, f) ==
    CHOOSE i \in DOMAIN paths :
        paths[i] = f /\ \A j \in 1..(i - 1) : paths[j] # f

\* C36: the reaction to a Human(Anchor) event leaves in files_context
\* files of that anchor's symbols only, each at most once, in the order in
\* which they occur first among the symbols; what earlier anchors left is
\* not kept.
C36_FilesContextOfLastAnchor ==
    [][(reactPc = "anchor" /\ reactPc' # "anchor") =>
          /\ \A i \in DOMAIN files_context' :
                /\ files_context'[i] # NoPath
                /\ \E k \in DOMAIN reactEv.files :
                      reactEv.files[k] = files_context'[i]
          /\ \A i, j \in DOMAIN files_context' :
                i < j => /\ files_context'[i] # files_context'[j]
                         /\ FirstIndexOf(reactEv.files, files_context'[i])
                              < FirstIndexOf(reactEv.files, files_context'[j])
          /\ \A f \in Files :
                (\E i \in DOMAIN files_context : files_context[i] = f)
                /\ (\A k \in DOMAIN reactEv.files : reactEv.files[k] # f)
                => \A i \in DOMAIN files_context' : files_context'[i] # f]_vars

\* C36 witness: of the symbols of an anchor in the files none, b, a, b, both
\* files were opened: files_context holds b, then a.
C36_Witness ==
    /\ files_context = <<"b", "a">>
    /\ reactPc = "idle"

\* an event of the given kind is on the reaction queue
Queued(kind) == \E k \in DOMAIN reactionQ : reactionQ[k].kind = kind

\* C38: the reaction task ends only by taking a ShutDown from the reaction
\* queue, and the ping task only when the reaction task has ended; the end
\* of the environment stream ends the environment loop and neither task,
\* and a Ping enqueued with the reaction task alive and no ShutDown queued
\* is reacted to.
C38_TasksEndOnlyByShutDown ==
    /\ [][(reactPc # "done" /\ reactPc' = "done") =>
            /\ reactPc = "idle"
            /\ reactionQ # <<>>
            /\ Head(reactionQ).kind = "ShutDown"]_vars
    /\ [][(pingPc # "done" /\ pingPc' = "done") => reactPc = "done"]_vars
    /\ [][(envPc # "done" /\ envPc' = "done" /\ stream = <<>>) =>
            UNCHANGED <<reactPc, reactOpen, pingPc, reactionQ>>]_vars
    /\ [](envPc = "done" /\ ~Queued("ShutDown") /\ reactOpen =>
            reactPc # "done" /\ pingPc = "running")
    /\ (envPc = "done" /\ reactOpen /\ ~Queued("ShutDown") /\ Queued("Ping"))
          ~> (reactPc = "ping")

\* C38 witness: the environment stream has ended without a ShutDown and the
\* environment loop has returned; the reaction task reacts to a ping while
\* the ping task, still running, has enqueued the next.
C38_Witness ==
    /\ envPc = "done"
    /\ streamEnded
    /\ reactOpen
    /\ ~Queued("ShutDown")
    /\ reactPc = "ping"
    /\ pingPc = "running"
    /\ Queued("Ping")

(***************************************************************************)
(* Properties of stream_completion.                                        *)
(***************************************************************************)
\* the concatenation of the texts of a sequence, in order
RECURSIVE Concat(_)
Concat(texts) ==
    IF texts = <<>> THEN <<>> ELSE Head(texts) \o Concat(Tail(texts))

\* C15: the k-th item the sink receives has for its cumulative text the
\* concatenation, in order of arrival, of the first k text deltas, and for
\* its delta the k-th one; the text buffered is the concatenation of all.
C15_CumulativeTextIsConcatenation ==
    /\ buffered = Concat(deltas)
    /\ sseReq.receiverOpen =>
          /\ Len(sink) = Len(deltas)
          /\ \A k \in DOMAIN sink :
                /\ sink[k].delta = deltas[k]
                /\ sink[k].cumulative_text = Concat(SubSeq(deltas, 1, k))
    /\ ~sseReq.receiverOpen => sink = <<>>

C17_ParseErrorIsAnError ==
    [][(ssePc = "streaming" /\ ssePc' = "returned" /\ consumed' = consumed + 1) =>
         sseResult' = IF deltas # <<>>
                      THEN [kind |-> "Err", text |-> buffered, err |-> "PartialStream",
                            status |-> 0]
                      ELSE Err("ParseError")]_vars

\* C18: an event of an unknown type is ignored: the event loop goes on
\* after it (and so the deltas that follow are still appended and sent).
C18_UnknownEventTypeIgnored ==
    [][(~unknownSeen /\ unknownSeen') => ssePc' = "streaming"]_vars

C20_DefaultMaxTokens ==
    rqPc = "built" =>
        rqWire.max_tokens =
            IF rqIn.max_tokens # None THEN rqIn.max_tokens
            ELSE IF rqIn.model = "ClaudeSonnet" THEN Some(8192)
            ELSE Some(4096)

\* C21: the API key is not printed: what the call prints is what it prints
\* when given another key, the x-api-key header is shown redacted, and no
\* line shows the key.
C21_ApiKeyNeverLogged ==
    /\ sseLog = sseLogOther
    /\ \A i \in DOMAIN sseLog :
          /\ sseLog[i].value \notin Secrets
          /\ sseLog[i].tag = "x-api-key" => sseLog[i].value = "[REDACTED]"

\* C21 witness: a call with an Anthropic key has printed its request
\* headers, the response headers and the body of a 500 answer.
C21_Witness ==
    /\ ssePc = "returned"
    /\ sseReq.secret = "sk-ant-2"
    /\ sseAnswer.status = 500
    /\ \E i, j \in DOMAIN sseLog :
          /\ i < j
          /\ sseLog[i].tag = "x-api-key"
          /\ sseLog[j].tag = "Error response body"

\* C15 witness: three deltas, an empty one among them, have reached the sink
\* and the call has returned.
C15_Witness ==
    /\ ssePc = "returned"
    /\ Len(sink) = 3
    /\ sink[3].cumulative_text = <<"x", "y">>
    /\ sink[2].delta = <<>>

\* C3: when the request's cancellation token has fired while the stream
\* was being consumed, the call returns the error Cancelled and the sink
\* holds exactly the items it held when the token fired.
C3_CancelStopsTheStream ==
    (ssePc = "returned" /\ tokenFired) =>
        /\ sseResult = Err("Cancelled")
        /\ Len(sink) = sinkAtFire

\* the POST was answered with a status of success
StatusCheckPassed ==
    /\ sseAnswer # NoAnswer
    /\ ~sseAnswer.transport
    /\ sseAnswer.status \in 200..299

\* C37: once the status check has passed stream_completion returns no
\* error: however the event stream ends (its end, a transport error, an
\* event that cannot be parsed) the call returns Ok with the text
\* accumulated so far, and a stream broken by a transport error returns what
\* a stream ended at the same point returns.
C37_NoErrorAfterStatusCheck ==
    /\ StatusCheckPassed => sseResult.kind # "Err"
    /\ (StatusCheckPassed /\ ssePc = "returned") =>
          /\ sseResult.kind = "Ok"
          /\ sseResult.text = buffered
          /\ sseResult.err = ""
          /\ sseResult.status = 0
    /\ sseEnd # "" => StatusCheckPassed /\ ssePc = "returned"

\* C37 witness: after two deltas the event source yields a transport error,
\* and the call has returned Ok with the text of the two.
C37_Witness ==
    /\ sseEnd = "transport_error"
    /\ Len(deltas) = 2
    /\ buffered # <<>>
    /\ sseResult.kind = "Ok"

\* the call was made for a model that is no Claude model
NotClaude ==
    /\ sseReq # NoRequest
    /\ sseReq.model \notin {"ClaudeOpus", "ClaudeSonnet", "ClaudeHaiku"}

\* the call was made with a key that is no Anthropic key
NotAnthropicKey == sseReq # NoRequest /\ sseReq.key # "Anthropic"

\* no POST was sent, no answer came, no event was consumed and nothing was
\* sent to the sink
NothingSent ==
    /\ ssePc = "returned"
    /\ sseAnswer = NoAnswer
    /\ consumed = 0
    /\ sink = <<>>
    /\ deltas = <<>>

\* C40: stream_completion validates before it sends: a model that is no
\* Claude model returns UnSupportedModel, whatever the key; a Claude model
\* with a key that is no Anthropic key returns WrongAPIKeyType; in both
\* cases no HTTP request is sent and no item is pushed to the sink.
C40_ValidatesBeforeSending ==
    /\ NotClaude => (sseResult = Err("UnSupportedModel") /\ NothingSent)
    /\ (NotAnthropicKey /\ ~NotClaude) =>
          (sseResult = Err("WrongAPIKeyType") /\ NothingSent)

\* C40 witness: a call for a model that is no Claude model, with a key that
\* is no Anthropic key and a sink whose receiver is open, has returned the
\* error of the model.
C40_Witness ==
    /\ NotClaude
    /\ NotAnthropicKey
    /\ sseReq.receiverOpen
    /\ sseResult.err = "UnSupportedModel"

(***************************************************************************)
(* Properties of plan_service.                                             *)
(***************************************************************************)
\* C4: in one run of the loop, whenever a command has been dealt with, the
\* persisted checkpoint is the initial checkpoint plus the number of
\* execute_step calls that returned Ok.
C4_CheckpointCountsSuccesses ==
    (planPc = "loop" /\ disk.exists /\ restarts = 0) =>
        disk.checkpoint = initCk + okCount

\* C5: no plan step has execute_step return Ok for it twice, whether the
\* process crashes or the save fails after the step completed.
C5_NoDoubleExecution ==
    \A s \in DOMAIN execCount : execCount[s] <= 1

\* C6: a plan with no step at its checkpoint never makes main abort.
C6_NoStepIsAnErrorNotAnAbort ==
    ~(planPc = "aborted" /\ abortCause = "no_step")

\* C7: the persisted checkpoint stays within [0, len(steps)], no step of
\* main (command, save, crash, restart) decreases it or removes plan.json,
\* and a start that finds plan.json holds the persisted plan in memory and
\* leaves the file as it is.
C7_CheckpointInRangeAndMonotone ==
    /\ [](disk.exists => disk.checkpoint \in 0..disk.len)
    /\ [][disk.exists =>
             /\ disk'.exists
             /\ disk'.len = disk.len
             /\ disk'.checkpoint >= disk.checkpoint]_vars
    /\ [][(planPc = "boot" /\ disk.exists /\ planPc' = "loop") =>
             /\ disk' = disk
             /\ plan' = LoadPlan(disk)]_vars

\* C7 witness: after a restart, main waits for a command at a checkpoint
\* that earlier runs advanced and persisted.
C7_Witness ==
    /\ restarts >= 1
    /\ planPc = "prompt"
    /\ disk.exists
    /\ disk.checkpoint > initCk
    /\ plan.checkpoint = disk.checkpoint

(***************************************************************************)
(* Properties of CodeSpan.                                                 *)
(***************************************************************************)
\* every span of the list has its start line at or before its end line
StartBeforeEnd(code_spans) ==
    \A i \in DOMAIN code_spans : code_spans[i].start_line <= code_spans[i].end_line

\* the (file_path, line) pairs the spans of a list cover
LinesCovered(code_spans) ==
    UNION {{<<code_spans[i].file_path, line>> :
               line \in code_spans[i].start_line..code_spans[i].end_line} :
           i \in DOMAIN code_spans}

\* C22: merging what merge_consecutive_spans returned changes nothing: file
\* by file, the second result is the list of spans of the first (stated for
\* spans whose start line is at or before their end line).
C22_MergeIsIdempotent ==
    (spPc = "merged_twice" /\ StartBeforeEnd(spIn) /\ ~spOut2.panicked) =>
        \A f \in SpanFiles :
            SpansOfFile(spOut2.spans, f) = SpansOfFile(spOut.spans, f)

\* C23: for spans whose start line is at or before their end line,
\* merge_consecutive_spans returns spans that cover the (file_path, line)
\* pairs the given spans cover.
C23_MergePreservesLinesCovered ==
    (spPc = "merged" /\ StartBeforeEnd(spIn) /\ ~spOut.panicked) =>
        LinesCovered(spOut.spans) = LinesCovered(spIn)

\* C24: to_digests returns one digest per span, in the order of the list,
\* the k-th span of a file path with index k, and no two digests with the
\* same hash.
C24_DigestsAreUnique ==
    spPc = "digested" =>
        /\ Len(spDigests) = Len(spIn)
        /\ \A i \in DOMAIN spDigests :
              /\ spDigests[i].code_span = spIn[i]
              /\ spDigests[i].hash[2] =
                    Cardinality({j \in 1..(i - 1) :
                                    spIn[j].file_path = spIn[i].file_path})
        /\ \A i, j \in DOMAIN spDigests :
              i # j => spDigests[i].hash # spDigests[j].hash

(***************************************************************************)
(* Properties of fix_symbol_names.                                         *)
(***************************************************************************)
\* the top-level symbol of a name: what stands before its first separator,
\* the whole name when it has none
TopLevelSymbol(code_symbol, separator) ==
    LET seps == {i \in DOMAIN code_symbol : code_symbol[i] = separator}
    IN  IF seps = {} THEN code_symbol
        ELSE SubSeq(code_symbol, 1,
                    (CHOOSE i \in seps : \A j \in seps : i <= j) - 1)

\* the name fix_symbol_names is to give a symbol of a file
FixedName(code_symbol, file_path) ==
    LET n == Len(file_path)
    IN  IF n >= 2 /\ file_path[n - 1] = "p" /\ file_path[n] = "y"
        THEN TopLevelSymbol(code_symbol, ".")
        ELSE IF n >= 2 /\ file_path[n - 1] = "r" /\ file_path[n] = "s"
        THEN TopLevelSymbol(code_symbol, "::")
        ELSE code_symbol

\* C25: fix_symbol_names gives every symbol the top-level symbol of its
\* name (before the first "::" in a file ending in "rs", before the first
\* "." in a file ending in "py", the name itself otherwise) and changes
\* nothing else: thinking, steps, is_new, file_path, and the number and the
\* order of the symbols.
C25_FixSymbolNamesTakesTopLevel ==
    syPc = "fixed" =>
        /\ Len(syOut.symbols) = Len(syIn.symbols)
        /\ Len(syOut.ordered_symbols) = Len(syIn.ordered_symbols)
        /\ \A i \in DOMAIN syIn.symbols :
              syOut.symbols[i] =
                 [syIn.symbols[i] EXCEPT
                     !.code_symbol = FixedName(syIn.symbols[i].code_symbol,
                                               syIn.symbols[i].file_path)]
        /\ \A i \in DOMAIN syIn.ordered_symbols :
              syOut.ordered_symbols[i] =
                 [syIn.ordered_symbols[i] EXCEPT
                     !.code_symbol = FixedName(syIn.ordered_symbols[i].code_symbol,
                                               syIn.ordered_symbols[i].file_path)]

\* C25 witness: a response with A::b::c of a.rs and then A.b of a.py has
\* been fixed into A and A.
C25_Witness ==
    /\ syPc = "fixed"
    /\ Len(syIn.symbols) = 1
    /\ Len(syIn.ordered_symbols) = 1
    /\ syIn.symbols[1].code_symbol = <<"A", "::", "b", "::", "c">>
    /\ syIn.symbols[1].file_path = <<"a", ".", "r", "s">>
    /\ syIn.ordered_symbols[1].code_symbol = <<"A", ".", "b">>
    /\ syIn.ordered_symbols[1].file_path = <<"a", ".", "p", "y">>
    /\ syOut.symbols[1].code_symbol = <<"A">>
    /\ syOut.ordered_symbols[1].code_symbol = <<"A">>

(***************************************************************************)
(* Properties of LSPGoToDefinition::invoke.                                *)
(***************************************************************************)
\* C33: every failure of invoke is a tool error of the step that failed:
\* ErrorCommunicatingWithEditor when the POST to
\* {editor_url}/go_to_definition could not be sent, SerdeConversionFailed
\* when the request could not be serialized or the response could not be
\* deserialized; an invoke sends at most one POST, to that endpoint, and
\* none when the input is not a go-to-definition input.
C33_FailuresAreToolErrors ==
    /\ Len(gtPosts) <= 1
    /\ \A i \in 1..Len(gtPosts) :
          gtPosts[i] = <<gtIn.editor_url, "/go_to_definition">>
    /\ gtIn.tool # "GoToDefinition" => gtPosts = <<>>
    /\ gtPc \in {"wrong_input", "serialize_failed"} => gtPosts = <<>>
    /\ gtPc = "wrong_input" => gtOut.kind = "Err"
    /\ gtPc = "send_failed" =>
          gtOut = ToolErr("ErrorCommunicatingWithEditor")
    /\ gtPc \in {"serialize_failed", "json_failed"} =>
          gtOut = ToolErr("SerdeConversionFailed")
    /\ gtOut.kind = "Err" <=>
          gtPc \in {"wrong_input", "serialize_failed", "send_failed",
                    "json_failed"}
    /\ gtOut.kind = "Ok" <=> gtPc = "returned"

\* C33 witness: the POST could not be sent and invoke has returned the
\* error of the editor that cannot be reached.
C33_Witness ==
    /\ gtPc = "send_failed"
    /\ Len(gtPosts) = 1
    /\ gtOut.error = "ErrorCommunicatingWithEditor"

(***************************************************************************)
(* Properties of the trajectory loop of swe_bench.                         *)
(***************************************************************************)
\* an agent run is being started
StartsRun == swPc = "agent" /\ swIn.repo_ok

\* C39: the trajectory loop makes at most 5 agent runs: a run starts only
\* when fewer than 5 were made and no test execution has exited with code
\* 0, the loop is left at the first exit code 0, an agent run that fails is
\* followed by the git diff and the tests like one that succeeds, and every
\* run is given the same session id, storage path and exchange id.
C39_AtMostFiveRuns ==
    /\ Len(swRuns) <= 5
    /\ StartsRun => Len(swRuns) < 5
    /\ StartsRun => \A i \in 1..Len(swExit) : swExit[i] # 0
    /\ \A i \in 1..Len(swExit) : swExit[i] = 0 => i = Len(swExit)
    /\ (swExit # <<>> /\ swExit[Len(swExit)] = 0) => swPc = "done"
    /\ (swPc = "diff" /\ swAgentFailed) => Len(swRuns) = Len(swExit) + 1
    /\ \A i, j \in 1..Len(swRuns) : swRuns[i] = swRuns[j]
    /\ \A i \in 1..Len(swRuns) :
          /\ swRuns[i].session_id = <<swIn.instance_id, "-", swIn.run_id>>
          /\ swRuns[i].exchange_id = 0

\* C39 witness: the fifth agent run failed like the runs before it, its
\* tests failed, and the loop has ended.
C39_Witness ==
    /\ swPc = "done"
    /\ Len(swRuns) = 5
    /\ swAgentFailed
    /\ swExit = <<1, 1, 1, 1, 1>>

====
